---- MODULE Spec2Model ----
(***************************************************************************)
(* Duplicate / repeat-customer detection and the send gate of the book     *)
(* outreach application.                                                   *)
(*                                                                         *)
(* Text values are modelled as sequences of one-character strings, so that *)
(* trimming, case folding, digit filtering and float parsing are computed  *)
(* character by character as the Python code computes them.  A missing     *)
(* spreadsheet cell (pandas NaN) is the one-element sequence NaN.          *)
(***************************************************************************)
EXTENDS Integers, Sequences, FiniteSets, TLC

\* ------------------------------------------------------------------------
\* Python string primitives
\* ------------------------------------------------------------------------

NaN == <<"NaN">>

\* An uncaught OverflowError raised by int(float(...)) on an infinite value.
OverflowError == <<"OverflowError">>

DigitChars == <<"0", "1", "2", "3", "4", "5", "6", "7", "8", "9">>

UpperChars == <<"A", "B", "C", "D", "E", "F", "G", "H", "I", "J", "K", "L", "M",
    "N", "O", "P", "Q", "R", "S", "T", "U", "V", "W", "X", "Y", "Z">>

LowerChars == <<"a", "b", "c", "d", "e", "f", "g", "h", "i", "j", "k", "l", "m",
    "n", "o", "p", "q", "r", "s", "t", "u", "v", "w", "x", "y", "z">>

IsDigit(c) == \E i \in 1..10 : DigitChars[i] = c

DigitVal(c) == (CHOOSE i \in 1..10 : DigitChars[i] = c) - 1

IsSpace(c) == c = " "

\* pd.isna(value)
IsNa(v) == v = NaN

\* str(value): a NaN cell prints as 'nan'
Str(v) == IF IsNa(v) THEN <<"n", "a", "n">> ELSE v

LowerChar(c) ==
    IF \E i \in 1..26 : UpperChars[i] = c
    THEN LowerChars[CHOOSE i \in 1..26 : UpperChars[i] = c]
    ELSE c

UpperChar(c) ==
    IF \E i \in 1..26 : LowerChars[i] = c
    THEN UpperChars[CHOOSE i \in 1..26 : LowerChars[i] = c]
    ELSE c

\* str.lower() and str.upper()
StrLower(s) == [i \in 1..Len(s) |-> LowerChar(s[i])]

StrUpper(s) == [i \in 1..Len(s) |-> UpperChar(s[i])]

RECURSIVE LStrip(_)
LStrip(s) == IF s # <<>> /\ IsSpace(Head(s)) THEN LStrip(Tail(s)) ELSE s

RECURSIVE RStrip(_)
RStrip(s) ==
    IF s # <<>> /\ IsSpace(s[Len(s)]) THEN RStrip(SubSeq(s, 1, Len(s) - 1)) ELSE s

\* str.strip()
Strip(s) == RStrip(LStrip(s))

\* re.sub(r'[^\d]', '', s)
OnlyDigits(s) == SelectSeq(s, IsDigit)

\* '.' in s
HasDot(s) == \E i \in 1..Len(s) : s[i] = "."

\* s[-n:]
LastN(s, n) == IF Len(s) <= n THEN s ELSE SubSeq(s, Len(s) - n + 1, Len(s))

\* index of the first occurrence of character c in s, 0 when absent
IndexOf(s, c) ==
    IF \E i \in 1..Len(s) : s[i] = c
    THEN CHOOSE i \in 1..Len(s) : s[i] = c /\ \A j \in 1..(i - 1) : s[j] # c
    ELSE 0

AllDigits(s) == \A i \in 1..Len(s) : IsDigit(s[i])

RECURSIVE StripLeadingZeros(_)
StripLeadingZeros(s) ==
    IF Len(s) > 1 /\ Head(s) = "0" THEN StripLeadingZeros(Tail(s)) ELSE s

RECURSIVE DecimalValue(_)
DecimalValue(s) ==
    IF s = <<>> THEN 0 ELSE 10 * DecimalValue(SubSeq(s, 1, Len(s) - 1)) + DigitVal(s[Len(s)])

Zeros(n) == [i \in 1..n |-> "0"]

\* ------------------------------------------------------------------------
\* str(int(float(s))) as Python evaluates it.  The result is a record:
\*   kind = "ok"        : txt is the printed integer
\*   kind = "ValueError": float() rejected the text (or int() met a NaN)
\*   kind = "Overflow"  : float() returned an infinity and int() raised
\* Covered grammar: [ws] [sign] digits [. digits] [e [sign] digits] [ws],
\* and the words inf / infinity / nan.  The digits are kept exactly, which
\* agrees with the double for values below 2^53.
\* Overflow is reported from the decimal exponent: a value of 10^309 or more
\* is an infinity, a value below 10^308 is finite; the pools hold no text in
\* between.
\* ------------------------------------------------------------------------

\* largest decimal exponent of a finite double (1.797e308)
FloatMaxExp10 == 308

FloatWords == { <<"i", "n", "f">>, <<"i", "n", "f", "i", "n", "i", "t", "y">> }

IntOfFloat(raw) ==
    LET ValueError == [kind |-> "ValueError", txt |-> <<>>]
        Overflow   == [kind |-> "Overflow", txt |-> <<>>]
        \* int() of the value with significant digits allD and decimal exponent expVal
        Value(neg, intD, frcD, allD, expVal) ==
            LET isZero   == allD = <<>> \/ allD = <<"0">>
                \* number of digits left of the decimal point after scaling
                pointPos == Len(allD) - Len(frcD) + expVal
                intTxt   == IF isZero \/ pointPos <= 0 THEN <<"0">>
                            ELSE IF pointPos <= Len(allD) THEN SubSeq(allD, 1, pointPos)
                            ELSE allD \o Zeros(pointPos - Len(allD))
            IN  IF ~isZero /\ pointPos > FloatMaxExp10 + 1 THEN Overflow
                ELSE [kind |-> "ok",
                      txt  |-> IF neg /\ intTxt # <<"0">> THEN <<"-">> \o intTxt ELSE intTxt]
        Fields(neg, intD, frcD, hasExp, eNeg, eDig) ==
            IF ~(/\ AllDigits(intD) /\ AllDigits(frcD)
                 /\ Len(intD) + Len(frcD) > 0
                 /\ (hasExp => (eDig # <<>> /\ AllDigits(eDig))))
            THEN ValueError
            ELSE Value(neg, intD, frcD, StripLeadingZeros(intD \o frcD),
                       IF ~hasExp THEN 0
                       ELSE IF eNeg THEN 0 - DecimalValue(eDig) ELSE DecimalValue(eDig))
        Parts(neg, mant, hasExp, expo, dPos) ==
            Fields(neg,
                   IF dPos = 0 THEN mant ELSE SubSeq(mant, 1, dPos - 1),
                   IF dPos = 0 THEN <<>> ELSE SubSeq(mant, dPos + 1, Len(mant)),
                   hasExp,
                   expo # <<>> /\ Head(expo) = "-",
                   IF expo # <<>> /\ Head(expo) \in {"+", "-"} THEN Tail(expo) ELSE expo)
        Exponent(neg, s1, ePos) ==
            Parts(neg,
                  IF ePos = 0 THEN s1 ELSE SubSeq(s1, 1, ePos - 1),
                  ePos # 0,
                  IF ePos = 0 THEN <<>> ELSE SubSeq(s1, ePos + 1, Len(s1)),
                  IndexOf(IF ePos = 0 THEN s1 ELSE SubSeq(s1, 1, ePos - 1), "."))
        Unsigned(neg, s1) ==
            IF s1 \in FloatWords THEN Overflow
            ELSE IF s1 = <<"n", "a", "n">> THEN ValueError
            ELSE Exponent(neg, s1, IndexOf(s1, "e"))
        Signed(s0) ==
            Unsigned(s0 # <<>> /\ Head(s0) = "-",
                     IF s0 # <<>> /\ Head(s0) \in {"+", "-"} THEN Tail(s0) ELSE s0)
    IN  Signed(StrLower(Strip(raw)))

\* ------------------------------------------------------------------------
\* Phone Normalizer: DuplicateDetector._clean_phone
\* ------------------------------------------------------------------------

PhoneDigits == 11

\* a normalizer that accepts 10-digit numbers only
_clean_phone_ten_digits(phone) ==
    LET Standardize(digits) == IF Len(digits) = 10 THEN <<"1">> \o digits ELSE <<>>
    IN  IF IsNa(phone) THEN <<>> ELSE Standardize(OnlyDigits(Str(phone)))

\* Result: the normalized phone, <<>> for "could not normalize", or
\* OverflowError when the call raises.
_clean_phone(phone) ==
    LET \* `return phone if len(phone) == 11 else ''`
        Checked(std) == IF Len(std) = PhoneDigits THEN std ELSE <<>>
        Standardize(digits) ==
            IF Len(digits) = PhoneDigits - 1 THEN Checked(<<"1">> \o digits)
            ELSE IF Len(digits) = PhoneDigits /\ Head(digits) = "1" THEN Checked(digits)
            ELSE IF Len(digits) > PhoneDigits THEN Checked(LastN(digits, PhoneDigits))
            ELSE <<>>
        \* the try block: parsed is str(int(float(phone_str)))
        Converted(phone_str, parsed) ==
            IF parsed.kind = "Overflow" THEN OverflowError
            ELSE IF parsed.kind = "ok" THEN Standardize(OnlyDigits(parsed.txt))
            ELSE Standardize(OnlyDigits(phone_str))
        FromStr(phone_str) ==
            IF HasDot(phone_str) THEN Converted(phone_str, IntOfFloat(phone_str))
            ELSE Standardize(OnlyDigits(phone_str))
    IN  IF IsNa(phone) \/ phone = <<>> \/ phone = <<"n", "a", "n">> THEN <<>>
        ELSE FromStr(Str(phone))

Raises(v) == v = OverflowError

\* ------------------------------------------------------------------------
\* Fixed tables of the address code, as character sequences
\* ------------------------------------------------------------------------

replacements == <<
    <<<<"s", "t", "r", "e", "e", "t">>, <<"s", "t">>>>,
    <<<<"a", "v", "e", "n", "u", "e">>, <<"a", "v", "e">>>>,
    <<<<"r", "o", "a", "d">>, <<"r", "d">>>>, <<<<"d", "r", "i", "v", "e">>, <<"d", "r">>>>,
    <<<<"l", "a", "n", "e">>, <<"l", "n">>>>,
    <<<<"b", "o", "u", "l", "e", "v", "a", "r", "d">>, <<"b", "l", "v", "d">>>>,
    <<<<"a", "p", "a", "r", "t", "m", "e", "n", "t">>, <<"a", "p", "t">>>>,
    <<<<"s", "u", "i", "t", "e">>, <<"s", "t", "e">>>>,
    <<<<"u", "n", "i", "t">>, <<"u", "n", "i", "t">>>>,
    <<<<"n", "o", "r", "t", "h">>, <<"n">>>>, <<<<"s", "o", "u", "t", "h">>, <<"s">>>>,
    <<<<"e", "a", "s", "t">>, <<"e">>>>, <<<<"w", "e", "s", "t">>, <<"w">>>>,
    <<<<"n", "o", "r", "t", "h", "e", "a", "s", "t">>, <<"n", "e">>>>,
    <<<<"n", "o", "r", "t", "h", "w", "e", "s", "t">>, <<"n", "w">>>>,
    <<<<"s", "o", "u", "t", "h", "e", "a", "s", "t">>, <<"s", "e">>>>,
    <<<<"s", "o", "u", "t", "h", "w", "e", "s", "t">>, <<"s", "w">>>>
>>

state_codes == <<
    <<"c", "a">>, <<"t", "x">>, <<"n", "y">>, <<"f", "l">>, <<"w", "a">>, <<"i", "l">>,
    <<"n", "j">>, <<"p", "a">>, <<"g", "a">>, <<"n", "c">>, <<"v", "a">>, <<"o", "h">>,
    <<"m", "i">>, <<"a", "z">>, <<"t", "n">>, <<"i", "n">>, <<"m", "a">>, <<"m", "d">>,
    <<"c", "o">>, <<"o", "r">>, <<"u", "t">>, <<"n", "v">>, <<"c", "t">>, <<"w", "i">>,
    <<"m", "n">>, <<"m", "o">>, <<"l", "a">>, <<"a", "l">>, <<"s", "c">>, <<"k", "y">>,
    <<"o", "k">>, <<"i", "a">>, <<"a", "r">>, <<"k", "s">>, <<"n", "m">>, <<"n", "e">>,
    <<"w", "v">>, <<"i", "d">>, <<"h", "i">>, <<"n", "h">>, <<"m", "e">>, <<"r", "i">>,
    <<"m", "t">>, <<"d", "e">>, <<"s", "d">>, <<"n", "d">>, <<"a", "k">>, <<"v", "t">>,
    <<"w", "y">>
>>

state_names == <<
    <<"c", "a", "l", "i", "f", "o", "r", "n", "i", "a">>, <<"t", "e", "x", "a", "s">>,
    <<"n", "e", "w", " ", "y", "o", "r", "k">>, <<"f", "l", "o", "r", "i", "d", "a">>,
    <<"w", "a", "s", "h", "i", "n", "g", "t", "o", "n">>,
    <<"i", "l", "l", "i", "n", "o", "i", "s">>,
    <<"n", "e", "w", " ", "j", "e", "r", "s", "e", "y">>,
    <<"p", "e", "n", "n", "s", "y", "l", "v", "a", "n", "i", "a">>,
    <<"g", "e", "o", "r", "g", "i", "a">>,
    <<"n", "o", "r", "t", "h", " ", "c", "a", "r", "o", "l", "i", "n", "a">>,
    <<"v", "i", "r", "g", "i", "n", "i", "a">>, <<"o", "h", "i", "o">>,
    <<"m", "i", "c", "h", "i", "g", "a", "n">>, <<"a", "r", "i", "z", "o", "n", "a">>,
    <<"t", "e", "n", "n", "e", "s", "s", "e", "e">>, <<"i", "n", "d", "i", "a", "n", "a">>,
    <<"m", "a", "s", "s", "a", "c", "h", "u", "s", "e", "t", "t", "s">>,
    <<"m", "a", "r", "y", "l", "a", "n", "d">>, <<"c", "o", "l", "o", "r", "a", "d", "o">>,
    <<"o", "r", "e", "g", "o", "n">>, <<"u", "t", "a", "h">>, <<"n", "e", "v", "a", "d", "a">>,
    <<"c", "o", "n", "n", "e", "c", "t", "i", "c", "u", "t">>,
    <<"w", "i", "s", "c", "o", "n", "s", "i", "n">>,
    <<"m", "i", "n", "n", "e", "s", "o", "t", "a">>,
    <<"m", "i", "s", "s", "o", "u", "r", "i">>,
    <<"l", "o", "u", "i", "s", "i", "a", "n", "a">>, <<"a", "l", "a", "b", "a", "m", "a">>,
    <<"s", "o", "u", "t", "h", " ", "c", "a", "r", "o", "l", "i", "n", "a">>,
    <<"k", "e", "n", "t", "u", "c", "k", "y">>, <<"o", "k", "l", "a", "h", "o", "m", "a">>,
    <<"i", "o", "w", "a">>, <<"a", "r", "k", "a", "n", "s", "a", "s">>,
    <<"k", "a", "n", "s", "a", "s">>, <<"n", "e", "w", " ", "m", "e", "x", "i", "c", "o">>,
    <<"n", "e", "b", "r", "a", "s", "k", "a">>,
    <<"w", "e", "s", "t", " ", "v", "i", "r", "g", "i", "n", "i", "a">>,
    <<"i", "d", "a", "h", "o">>, <<"h", "a", "w", "a", "i", "i">>,
    <<"n", "e", "w", " ", "h", "a", "m", "p", "s", "h", "i", "r", "e">>,
    <<"m", "a", "i", "n", "e">>,
    <<"r", "h", "o", "d", "e", " ", "i", "s", "l", "a", "n", "d">>,
    <<"m", "o", "n", "t", "a", "n", "a">>, <<"d", "e", "l", "a", "w", "a", "r", "e">>,
    <<"s", "o", "u", "t", "h", " ", "d", "a", "k", "o", "t", "a">>,
    <<"n", "o", "r", "t", "h", " ", "d", "a", "k", "o", "t", "a">>,
    <<"a", "l", "a", "s", "k", "a">>, <<"v", "e", "r", "m", "o", "n", "t">>,
    <<"w", "y", "o", "m", "i", "n", "g">>
>>

street_types == <<
    <<"s", "t">>, <<"a", "v", "e">>, <<"r", "d">>, <<"d", "r">>, <<"l", "n">>,
    <<"b", "l", "v", "d">>, <<"c", "t">>, <<"p", "l">>, <<"w", "a", "y">>, <<"c", "i", "r">>,
    <<"p", "k", "w", "y">>, <<"t", "r">>
>>

street_type_mappings == <<
    {<<"s", "t", "r", "e", "e", "t">>, <<"s", "t">>},
    {<<"a", "v", "e", "n", "u", "e">>, <<"a", "v", "e">>},
    {<<"r", "o", "a", "d">>, <<"r", "d">>}, {<<"d", "r", "i", "v", "e">>, <<"d", "r">>},
    {<<"l", "a", "n", "e">>, <<"l", "n">>},
    {<<"b", "o", "u", "l", "e", "v", "a", "r", "d">>, <<"b", "l", "v", "d">>},
    {<<"c", "o", "u", "r", "t">>, <<"c", "t">>}, {<<"p", "l", "a", "c", "e">>, <<"p", "l">>},
    {<<"w", "a", "y">>}, {<<"c", "i", "r", "c", "l", "e">>, <<"c", "i", "r">>},
    {<<"p", "a", "r", "k", "w", "a", "y">>, <<"p", "k", "w", "y">>},
    {<<"t", "r", "a", "i", "l">>, <<"t", "r">>}
>>

state_mappings == <<
    <<<<"c", "a">>, <<"c", "a", "l", "i", "f", "o", "r", "n", "i", "a">>>>,
    <<<<"t", "x">>, <<"t", "e", "x", "a", "s">>>>,
    <<<<"n", "y">>, <<"n", "e", "w", " ", "y", "o", "r", "k">>>>,
    <<<<"f", "l">>, <<"f", "l", "o", "r", "i", "d", "a">>>>,
    <<<<"w", "a">>, <<"w", "a", "s", "h", "i", "n", "g", "t", "o", "n">>>>,
    <<<<"i", "l">>, <<"i", "l", "l", "i", "n", "o", "i", "s">>>>,
    <<<<"n", "j">>, <<"n", "e", "w", " ", "j", "e", "r", "s", "e", "y">>>>,
    <<<<"p", "a">>, <<"p", "e", "n", "n", "s", "y", "l", "v", "a", "n", "i", "a">>>>,
    <<<<"g", "a">>, <<"g", "e", "o", "r", "g", "i", "a">>>>,
    <<<<"n", "c">>, <<"n", "o", "r", "t", "h", " ", "c", "a", "r", "o", "l", "i", "n", "a">>>>,
    <<<<"v", "a">>, <<"v", "i", "r", "g", "i", "n", "i", "a">>>>,
    <<<<"o", "h">>, <<"o", "h", "i", "o">>>>,
    <<<<"m", "i">>, <<"m", "i", "c", "h", "i", "g", "a", "n">>>>,
    <<<<"a", "z">>, <<"a", "r", "i", "z", "o", "n", "a">>>>,
    <<<<"t", "n">>, <<"t", "e", "n", "n", "e", "s", "s", "e", "e">>>>,
    <<<<"i", "n">>, <<"i", "n", "d", "i", "a", "n", "a">>>>,
    <<<<"m", "a">>, <<"m", "a", "s", "s", "a", "c", "h", "u", "s", "e", "t", "t", "s">>>>,
    <<<<"m", "d">>, <<"m", "a", "r", "y", "l", "a", "n", "d">>>>,
    <<<<"c", "o">>, <<"c", "o", "l", "o", "r", "a", "d", "o">>>>,
    <<<<"o", "r">>, <<"o", "r", "e", "g", "o", "n">>>>,
    <<<<"u", "t">>, <<"u", "t", "a", "h">>>>,
    <<<<"n", "v">>, <<"n", "e", "v", "a", "d", "a">>>>,
    <<<<"c", "t">>, <<"c", "o", "n", "n", "e", "c", "t", "i", "c", "u", "t">>>>,
    <<<<"w", "i">>, <<"w", "i", "s", "c", "o", "n", "s", "i", "n">>>>,
    <<<<"m", "n">>, <<"m", "i", "n", "n", "e", "s", "o", "t", "a">>>>,
    <<<<"m", "o">>, <<"m", "i", "s", "s", "o", "u", "r", "i">>>>,
    <<<<"l", "a">>, <<"l", "o", "u", "i", "s", "i", "a", "n", "a">>>>,
    <<<<"a", "l">>, <<"a", "l", "a", "b", "a", "m", "a">>>>,
    <<<<"s", "c">>, <<"s", "o", "u", "t", "h", " ", "c", "a", "r", "o", "l", "i", "n", "a">>>>,
    <<<<"k", "y">>, <<"k", "e", "n", "t", "u", "c", "k", "y">>>>,
    <<<<"o", "k">>, <<"o", "k", "l", "a", "h", "o", "m", "a">>>>,
    <<<<"i", "a">>, <<"i", "o", "w", "a">>>>,
    <<<<"a", "r">>, <<"a", "r", "k", "a", "n", "s", "a", "s">>>>,
    <<<<"k", "s">>, <<"k", "a", "n", "s", "a", "s">>>>,
    <<<<"n", "m">>, <<"n", "e", "w", " ", "m", "e", "x", "i", "c", "o">>>>,
    <<<<"n", "e">>, <<"n", "e", "b", "r", "a", "s", "k", "a">>>>,
    <<<<"w", "v">>, <<"w", "e", "s", "t", " ", "v", "i", "r", "g", "i", "n", "i", "a">>>>,
    <<<<"i", "d">>, <<"i", "d", "a", "h", "o">>>>,
    <<<<"h", "i">>, <<"h", "a", "w", "a", "i", "i">>>>,
    <<<<"n", "h">>, <<"n", "e", "w", " ", "h", "a", "m", "p", "s", "h", "i", "r", "e">>>>,
    <<<<"m", "e">>, <<"m", "a", "i", "n", "e">>>>,
    <<<<"r", "i">>, <<"r", "h", "o", "d", "e", " ", "i", "s", "l", "a", "n", "d">>>>,
    <<<<"m", "t">>, <<"m", "o", "n", "t", "a", "n", "a">>>>,
    <<<<"d", "e">>, <<"d", "e", "l", "a", "w", "a", "r", "e">>>>,
    <<<<"s", "d">>, <<"s", "o", "u", "t", "h", " ", "d", "a", "k", "o", "t", "a">>>>,
    <<<<"n", "d">>, <<"n", "o", "r", "t", "h", " ", "d", "a", "k", "o", "t", "a">>>>,
    <<<<"a", "k">>, <<"a", "l", "a", "s", "k", "a">>>>,
    <<<<"v", "t">>, <<"v", "e", "r", "m", "o", "n", "t">>>>,
    <<<<"w", "y">>, <<"w", "y", "o", "m", "i", "n", "g">>>>
>>

variations == <<
    <<<<"n", "o", "r", "t", "h">>, <<"n">>>>, <<<<"s", "o", "u", "t", "h">>, <<"s">>>>,
    <<<<"e", "a", "s", "t">>, <<"e">>>>, <<<<"w", "e", "s", "t">>, <<"w">>>>,
    <<<<"n", "o", "r", "t", "h", "e", "a", "s", "t">>, <<"n", "e">>>>,
    <<<<"n", "o", "r", "t", "h", "w", "e", "s", "t">>, <<"n", "w">>>>,
    <<<<"s", "o", "u", "t", "h", "e", "a", "s", "t">>, <<"s", "e">>>>,
    <<<<"s", "o", "u", "t", "h", "w", "e", "s", "t">>, <<"s", "w">>>>
>>


\* ------------------------------------------------------------------------
\* Exact rational arithmetic for similarity scores: <<numerator, denominator>>
\* with a positive denominator, kept in lowest terms.  Python computes the
\* same sums in binary floating point.
\* ------------------------------------------------------------------------

RECURSIVE GCD(_, _)
GCD(a, b) == IF b = 0 THEN a ELSE GCD(b, a % b)

Rat(n, d) == LET g == GCD(n, d) IN IF g = 0 THEN <<0, 1>> ELSE <<n \div g, d \div g>>

RAdd(x, y) == Rat(x[1] * y[2] + y[1] * x[2], x[2] * y[2])

RMul(x, y) == Rat(x[1] * y[1], x[2] * y[2])

RLess(x, y) == x[1] * y[2] < y[1] * x[2]

RGeq(x, y) == ~RLess(x, y)

RMin(x, y) == IF RLess(y, x) THEN y ELSE x

\* ------------------------------------------------------------------------
\* difflib.SequenceMatcher(None, a, b).ratio()
\* ------------------------------------------------------------------------

RECURSIVE CommonPrefixLen(_, _)
CommonPrefixLen(a, b) ==
    IF a = <<>> \/ b = <<>> \/ Head(a) # Head(b) THEN 0
    ELSE 1 + CommonPrefixLen(Tail(a), Tail(b))

\* find_longest_match: the longest block a[i..i+k-1] = b[j..j+k-1]; among the
\* longest the one starting earliest in a, and of those earliest in b.
FindLongestMatch(a, b) ==
    LET K(i, j) == CommonPrefixLen(SubSeq(a, i, Len(a)), SubSeq(b, j, Len(b)))
        Pairs   == (1..Len(a)) \X (1..Len(b))
        Best(p, size) ==
            \A r \in Pairs :
                \/ K(r[1], r[2]) < size
                \/ /\ K(r[1], r[2]) = size
                   /\ (p[1] < r[1] \/ (p[1] = r[1] /\ p[2] <= r[2]))
        Block(p) == <<p[1], p[2], K(p[1], p[2])>>
    IN  Block(CHOOSE p \in Pairs : Best(p, K(p[1], p[2])))

\* the total size of get_matching_blocks()
RECURSIVE MatchingSize(_, _)
MatchingSize(a, b) ==
    LET \* the block <<i, j, k>> and the matches left and right of it
        Around(i, j, k) ==
            IF k = 0 THEN 0
            ELSE k + MatchingSize(SubSeq(a, 1, i - 1), SubSeq(b, 1, j - 1))
                   + MatchingSize(SubSeq(a, i + k, Len(a)), SubSeq(b, j + k, Len(b)))
        Matched(m) == Around(m[1], m[2], m[3])
    IN  IF a = <<>> \/ b = <<>> THEN 0 ELSE Matched(FindLongestMatch(a, b))

SequenceMatcherRatio(a, b) ==
    IF Len(a) + Len(b) = 0 THEN <<1, 1>>
    ELSE Rat(2 * MatchingSize(a, b), Len(a) + Len(b))

\* ------------------------------------------------------------------------
\* Address Normalizer: DuplicateDetector._clean_address
\* ------------------------------------------------------------------------

IsWordChar(c) ==
    \/ IsDigit(c)
    \/ c = "_"
    \/ \E i \in 1..26 : LowerChars[i] = c \/ UpperChars[i] = c

\* re.sub(r'\s+', ' ', s)
RECURSIVE CollapseSpaces(_)
CollapseSpaces(s) ==
    IF s = <<>> THEN <<>>
    ELSE IF IsSpace(Head(s)) THEN <<" ">> \o CollapseSpaces(LStrip(s))
    ELSE <<Head(s)>> \o CollapseSpaces(Tail(s))

InSeq(table, x) == \E i \in 1..Len(table) : table[i] = x

HasKey(table, key) == \E i \in 1..Len(table) : table[i][1] = key

Lookup(table, key) == table[CHOOSE i \in 1..Len(table) : table[i][1] = key][2]

\* One pass of re.sub(r'\b' + full + r'\b', abbrev, address) over every entry
\* of replacements: a match is a maximal run of word characters equal to a
\* key, and no abbreviation is itself a key, so the passes do not interact.
Abbreviate(word) == IF HasKey(replacements, word) THEN Lookup(replacements, word) ELSE word

RECURSIVE ReplaceWords(_, _)
ReplaceWords(s, word) ==
    IF s = <<>> THEN Abbreviate(word)
    ELSE IF IsWordChar(Head(s)) THEN ReplaceWords(Tail(s), Append(word, Head(s)))
    ELSE Abbreviate(word) \o <<Head(s)>> \o ReplaceWords(Tail(s), <<>>)

_clean_address(address) ==
    IF IsNa(address) \/ address = <<>> \/ address = <<"n", "a", "n">> THEN <<>>
    ELSE ReplaceWords(CollapseSpaces(Strip(StrLower(Str(address)))), <<>>)

\* ------------------------------------------------------------------------
\* DuplicateDetector._parse_address_components
\* ------------------------------------------------------------------------

\* str.split(): the whitespace-separated tokens
RECURSIVE SplitWords(_, _)
SplitWords(s, word) ==
    IF s = <<>> THEN (IF word = <<>> THEN <<>> ELSE <<word>>)
    ELSE IF IsSpace(Head(s))
         THEN (IF word = <<>> THEN <<>> ELSE <<word>>) \o SplitWords(Tail(s), <<>>)
         ELSE SplitWords(Tail(s), Append(word, Head(s)))

Split(s) == SplitWords(s, <<>>)

\* ' '.join(parts)
RECURSIVE Join(_)
Join(parts) ==
    IF parts = <<>> THEN <<>>
    ELSE IF Len(parts) = 1 THEN parts[1]
    ELSE parts[1] \o <<" ">> \o Join(Tail(parts))

Front(s) == SubSeq(s, 1, Len(s) - 1)

Last(s) == s[Len(s)]

ZipLen == 5

\* the empty dict returned for a falsy address
NoComponents ==
    [is_empty |-> TRUE, street_number |-> <<>>, street_name |-> <<>>, street_type |-> <<>>,
     city |-> <<>>, state |-> <<>>, zip_code |-> <<>>, full_street |-> <<>>,
     full_address |-> <<>>]

\* position of the first street-type token, 0 when there is none
FirstStreetType(parts) ==
    IF \E i \in 1..Len(parts) : InSeq(street_types, parts[i])
    THEN CHOOSE i \in 1..Len(parts) :
            /\ InSeq(street_types, parts[i])
            /\ \A j \in 1..(i - 1) : ~InSeq(street_types, parts[j])
    ELSE 0

IsNumber(tok) == tok # <<>> /\ AllDigits(tok)

_parse_address_components(address) ==
    LET Components(clean_addr, state, zip_code) ==
            [is_empty |-> FALSE, street_number |-> <<>>, street_name |-> <<>>,
             street_type |-> <<>>, city |-> <<>>, state |-> state, zip_code |-> zip_code,
             full_street |-> <<>>, full_address |-> clean_addr]
        \* `if street_end_idx > 0:` with street_parts = parts[:street_end_idx]
        Street(components, parts, street_end_idx, street_parts) ==
            [components EXCEPT
                !.street_number = IF IsNumber(street_parts[1]) THEN street_parts[1] ELSE <<>>,
                !.street_type =
                    IF IsNumber(street_parts[1])
                    THEN (IF Len(street_parts) > 1 /\ InSeq(street_types, Last(street_parts))
                          THEN Last(street_parts) ELSE <<>>)
                    ELSE (IF InSeq(street_types, Last(street_parts))
                          THEN Last(street_parts) ELSE <<>>),
                !.street_name =
                    IF IsNumber(street_parts[1])
                    THEN (IF Len(street_parts) > 1
                          THEN (IF InSeq(street_types, Last(street_parts))
                                THEN Join(SubSeq(street_parts, 2, Len(street_parts) - 1))
                                ELSE Join(Tail(street_parts)))
                          ELSE <<>>)
                    ELSE (IF InSeq(street_types, Last(street_parts))
                          THEN Join(Front(street_parts))
                          ELSE Join(street_parts)),
                !.full_street = Join(street_parts),
                !.city = IF street_end_idx < Len(parts)
                         THEN Join(SubSeq(parts, street_end_idx + 1, Len(parts))) ELSE <<>>]
        \* no street type found, the first part is a number; i is the position
        \* of the first street type in remaining_parts, 0 for the loop's else
        Numbered(components, parts, remaining_parts, i) ==
            IF i > 0
            THEN [components EXCEPT
                    !.street_number = parts[1],
                    !.street_type = remaining_parts[i],
                    !.street_name = Join(SubSeq(remaining_parts, 1, i - 1)),
                    !.city = Join(SubSeq(remaining_parts, i + 1, Len(remaining_parts)))]
            ELSE [components EXCEPT !.street_number = parts[1],
                                    !.street_name = Join(remaining_parts)]
        \* no street type found, no street number
        Unnumbered(components, parts, i) ==
            IF i > 0
            THEN [components EXCEPT !.street_type = parts[i],
                                    !.street_name = Join(SubSeq(parts, 1, i - 1)),
                                    !.city = Join(SubSeq(parts, i + 1, Len(parts)))]
            ELSE [components EXCEPT !.street_name = Join(parts)]
        Located(components, parts, street_end_idx) ==
            IF street_end_idx > 0
            THEN Street(components, parts, street_end_idx, SubSeq(parts, 1, street_end_idx))
            ELSE IF IsNumber(parts[1])
            THEN Numbered(components, parts, Tail(parts), FirstStreetType(Tail(parts)))
            ELSE Unnumbered(components, parts, FirstStreetType(parts))
        \* `if parts:` after the zip code and the state were taken off
        City(components, parts) ==
            IF parts = <<>> THEN components
            ELSE Located(components, parts, FirstStreetType(parts))
        State(clean_addr, zip_code, parts) ==
            IF parts # <<>> /\ (InSeq(state_codes, Last(parts)) \/ InSeq(state_names, Last(parts)))
            THEN City(Components(clean_addr, Last(parts), zip_code), Front(parts))
            ELSE City(Components(clean_addr, <<>>, zip_code), parts)
        Zip(clean_addr, parts) ==
            IF parts # <<>> /\ Len(Last(parts)) = ZipLen /\ AllDigits(Last(parts))
            THEN State(clean_addr, Last(parts), Front(parts))
            ELSE State(clean_addr, <<>>, parts)
        Cleaned(clean_addr) == Zip(clean_addr, Split(clean_addr))
    IN  IF address = <<>> THEN NoComponents ELSE Cleaned(_clean_address(address))

\* ------------------------------------------------------------------------
\* Component Similarity Scorers
\* ------------------------------------------------------------------------

_fuzzy_match_street_type(type1, type2) ==
    LET Normalized(type1_norm, type2_norm) ==
            IF \E g \in 1..Len(street_type_mappings) :
                  type1_norm \in street_type_mappings[g] /\ type2_norm \in street_type_mappings[g]
            THEN <<1, 1>>
            ELSE SequenceMatcherRatio(type1_norm, type2_norm)
    IN  Normalized(Strip(StrLower(type1)), Strip(StrLower(type2)))

_fuzzy_match_state(state1, state2) ==
    LET Normalized(state1_norm, state2_norm) ==
            IF HasKey(state_mappings, state1_norm)
               /\ Lookup(state_mappings, state1_norm) = state2_norm
            THEN <<1, 1>>
            ELSE IF HasKey(state_mappings, state2_norm)
                    /\ Lookup(state_mappings, state2_norm) = state1_norm
            THEN <<1, 1>>
            ELSE IF state1_norm = state2_norm THEN <<1, 1>>
            ELSE <<0, 1>>
    IN  Normalized(Strip(StrLower(state1)), Strip(StrLower(state2)))

StartsWith(s, p) == Len(p) <= Len(s) /\ SubSeq(s, 1, Len(p)) = p

\* str.replace(old, new) for a non-empty old
RECURSIVE Replace(_, _, _)
Replace(s, old, new) ==
    IF s = <<>> THEN <<>>
    ELSE IF StartsWith(s, old) THEN new \o Replace(SubSeq(s, Len(old) + 1, Len(s)), old, new)
    ELSE <<Head(s)>> \o Replace(Tail(s), old, new)

SimilarityThreshold == <<4, 5>>

_fuzzy_match_street_name(name1, name2) ==
    LET Variation(n, v) == Replace(Replace(n, v[1], v[2]), v[2], v[1])
        Thresholded(similarity) ==
            IF RGeq(similarity, SimilarityThreshold) THEN similarity ELSE <<0, 1>>
        Normalized(name1_norm, name2_norm) ==
            IF name1_norm = name2_norm THEN <<1, 1>>
            ELSE IF \E i \in 1..Len(variations) :
                       \/ Variation(name1_norm, variations[i]) = name2_norm
                       \/ name1_norm = Variation(name2_norm, variations[i])
            THEN <<9, 10>>
            ELSE Thresholded(SequenceMatcherRatio(name1_norm, name2_norm))
    IN  Normalized(Strip(StrLower(name1)), Strip(StrLower(name2)))

\* ------------------------------------------------------------------------
\* Weighted Address Matcher: DuplicateDetector._calculate_address_similarity
\* ------------------------------------------------------------------------

weights == <<
    <<"street_number", <<25, 100>>>>, <<"street_name", <<35, 100>>>>,
    <<"street_type", <<5, 100>>>>, <<"city", <<20, 100>>>>,
    <<"state", <<10, 100>>>>, <<"zip_code", <<5, 100>>>>
>>

\* a component score without the fuzzy scorers
ComponentScoreExact(component, comp1, comp2) ==
    LET Score(val1, val2) ==
            IF val1 = <<>> /\ val2 = <<>> THEN <<1, 2>>
            ELSE IF val1 = <<>> \/ val2 = <<>> THEN <<0, 1>>
            ELSE IF val1 = val2 THEN <<1, 1>>
            ELSE <<0, 1>>
    IN  Score(Strip(comp1[component]), Strip(comp2[component]))

ComponentScore(component, comp1, comp2) ==
    LET Score(val1, val2) ==
            IF val1 = <<>> /\ val2 = <<>> THEN <<1, 2>>
            ELSE IF val1 = <<>> \/ val2 = <<>> THEN <<0, 1>>
            ELSE IF val1 = val2 THEN <<1, 1>>
            ELSE IF component = "street_type" THEN _fuzzy_match_street_type(val1, val2)
            ELSE IF component = "state" THEN _fuzzy_match_state(val1, val2)
            ELSE IF component = "street_name" THEN _fuzzy_match_street_name(val1, val2)
            ELSE <<0, 1>>
    IN  Score(Strip(comp1[component]), Strip(comp2[component]))

RECURSIVE WeightedSum(_, _, _)
WeightedSum(i, comp1, comp2) ==
    IF i = 0 THEN <<0, 1>>
    ELSE RAdd(WeightedSum(i - 1, comp1, comp2),
              RMul(ComponentScore(weights[i][1], comp1, comp2), Rat(weights[i][2][1], weights[i][2][2])))

\* no penalty for different street numbers
NoStreetNumberPenalty == <<1, 1>>

\* `total_score *= 0.3  # Heavy penalty for different street numbers`
StreetNumberPenalty == <<3, 10>>

_calculate_address_similarity(address1, address2) ==
    LET CityPenalty(comp1, comp2, score) ==
            IF comp1.city # <<>> /\ comp2.city # <<>> /\ comp1.city # comp2.city
            THEN RMul(score, <<2, 5>>) ELSE score
        NamePenalty(comp1, comp2, score, name_score) ==
            IF /\ comp1.street_name # <<>> /\ comp2.street_name # <<>>
               /\ RLess(name_score, SimilarityThreshold)
            THEN RMul(score, <<1, 2>>) ELSE score
        NumberPenalty(comp1, comp2, total_score) ==
            IF /\ comp1.street_number # <<>> /\ comp2.street_number # <<>>
               /\ comp1.street_number # comp2.street_number
            THEN RMul(total_score, StreetNumberPenalty) ELSE total_score
        Parsed(comp1, comp2) ==
            IF comp1.is_empty \/ comp2.is_empty THEN SequenceMatcherRatio(address1, address2)
            ELSE RMin(CityPenalty(comp1, comp2,
                          NamePenalty(comp1, comp2,
                              NumberPenalty(comp1, comp2, WeightedSum(Len(weights), comp1, comp2)),
                              ComponentScore("street_name", comp1, comp2))),
                      <<1, 1>>)
    IN  Parsed(_parse_address_components(address1), _parse_address_components(address2))

\* ------------------------------------------------------------------------
\* Cell values used by the checked passes
\* ------------------------------------------------------------------------

TxtJohnSmith == <<"J", "o", "h", "n", " ", "S", "m", "i", "t", "h">>
TxtJohnSmithLower == <<" ", "j", "o", "h", "n", " ", "s", "m", "i", "t", "h", " ">>
TxtJaneDoe == <<"J", "a", "n", "e", " ", "D", "o", "e">>
TxtAlRoe == <<"A", "l", " ", "R", "o", "e">>
TxtBlank == <<" ">>
TxtEmpty == <<>>

Phone10 == <<"2", "0", "6", "5", "0", "4", "4", "2", "4", "2">>
Phone11 == <<"1">> \o Phone10
PhoneFloat == Phone10 \o <<".", "0">>
PhoneFormatted == <<"(", "2", "0", "6", ")", " ", "5", "0", "4", "-", "4", "2", "4", "2">>
PhoneOther == <<"4", "2", "5", "5", "5", "5", "0", "1", "0", "0">>
PhoneShort == <<"0", "6", "5">>
PhoneHuge == <<"1", ".", "0", "e", "9", "9", "9">>

AddrMainStreet ==
    <<"1", "2", "3", " ", "M", "a", "i", "n", " ", "S", "t", "r", "e", "e", "t", " ", "S", "p",
      "r", "i", "n", "g", "f", "i", "e", "l", "d", " ", "I", "L", " ", "6", "2", "7", "0", "1">>
AddrMainSt ==
    <<"1", "2", "3", " ", "m", "a", "i", "n", " ", "s", "t", " ", " ", "s", "p", "r", "i", "n",
      "g", "f", "i", "e", "l", "d", " ", "i", "l", " ", "6", "2", "7", "0", "1">>
AddrOtherNumber ==
    <<"4", "5", "6", " ", "M", "a", "i", "n", " ", "S", "t", " ", "S", "p", "r", "i", "n", "g",
      "f", "i", "e", "l", "d", " ", "I", "L", " ", "6", "2", "7", "0", "1">>
AddrOak ==
    <<"9", " ", "O", "a", "k", " ", "A", "v", "e", " ", "S", "a", "l", "e", "m", " ", "O", "R">>

\* an address without street number, city, state and zip
AddrStreetOnly == <<"M", "a", "i", "n", " ", "S", "t">>

BookGG == <<"G", "G">>
BookGGLower == <<" ", "g", "g">>
BookJKR == <<"J", "K", "R">>
BookJKRLower == <<"j", "k", "r", " ">>

PhonePool ==
    {Phone10, Phone11, PhoneFloat, PhoneFormatted, PhoneOther, PhoneShort, PhoneHuge,
     TxtEmpty, NaN}

AddressPool ==
    {AddrMainStreet, AddrMainSt, AddrOtherNumber, AddrOak, AddrStreetOnly, TxtEmpty, NaN}

Row(name, phone, address, book) ==
    [Name |-> name, Phone |-> phone, Address |-> address, Book |-> book]

\* ------------------------------------------------------------------------
\* Values of the normalizers on the pools, computed once
\* ------------------------------------------------------------------------

\* the digits of a phone without the 11-digit standardization
RawPhoneTable == [p \in PhonePool |-> IF IsNa(p) THEN <<>> ELSE OnlyDigits(p)]

CleanPhoneTable == [p \in PhonePool |-> _clean_phone(p)]

CleanAddressTable == [a \in AddressPool |-> _clean_address(a)]

CleanAddresses == {CleanAddressTable[a] : a \in AddressPool} \ {<<>>}

SimilarityTable ==
    [a \in CleanAddresses |-> [b \in CleanAddresses |-> _calculate_address_similarity(a, b)]]

\* ------------------------------------------------------------------------
\* Duplicate Detection Engine: the scan of one request against the ledger
\* (the body of the row loop of _find_duplicates_sequential and of
\* find_duplicates_for_chunk)
\* ------------------------------------------------------------------------

\* self.similarity_threshold
similarity_threshold == <<4, 5>>

\* a name compared without lower-casing
NormNameCaseSensitive(name) == Strip(Str(name))

\* str(row.get('Name', '')).strip().lower()
NormName(name) == StrLower(Strip(Str(name)))

\* a phone match that does not look at the names
PhoneMatchPhoneOnly(sms_phone, hist_phone, sms_name, hist_name) ==
    sms_phone # <<>> /\ hist_phone # <<>> /\ sms_phone = hist_phone

\* a phone match that takes two empty names for equal names
PhoneMatchEmptyNames(sms_phone, hist_phone, sms_name, hist_name) ==
    /\ sms_phone # <<>> /\ hist_phone # <<>> /\ sms_phone = hist_phone
    /\ sms_name = hist_name

PhoneMatch(sms_phone, hist_phone, sms_name, hist_name) ==
    /\ sms_phone # <<>> /\ hist_phone # <<>> /\ sms_phone = hist_phone
    /\ sms_name # <<>> /\ hist_name # <<>> /\ sms_name = hist_name

AddressMatch(sms_address, hist_address) ==
    /\ sms_address # <<>> /\ hist_address # <<>>
    /\ RGeq(SimilarityTable[sms_address][hist_address], similarity_threshold)

\* outcome "raised": a _clean_phone call raised; "skipped": the `continue`
\* for a request without phone and address; "scanned": the ledger loop ran.
ScanRow(sms_row, historical_data) ==
    LET H == 1..Len(historical_data)
        hist_phone(j)   == CleanPhoneTable[historical_data[j].Phone]
        hist_address(j) == CleanAddressTable[historical_data[j].Address]
        hist_name(j)    == NormName(historical_data[j].Name)
        Matches(sms_phone, sms_address, phone_idx, addr_idx) ==
            [outcome |-> "scanned",
             sms_phone |-> sms_phone,
             sms_address |-> sms_address,
             phone_matches |->
                 [k \in 1..Len(phone_idx) |->
                     [historical_index |-> phone_idx[k] - 1, match_type |-> "phone",
                      match_value |-> sms_phone]],
             address_matches |->
                 [k \in 1..Len(addr_idx) |->
                     [historical_index |-> addr_idx[k] - 1, match_type |-> "address",
                      match_value |-> hist_address(addr_idx[k]),
                      similarity |-> SimilarityTable[sms_address][hist_address(addr_idx[k])]]]]
        Cleaned(sms_phone, sms_address, sms_name) ==
            IF Raises(sms_phone) THEN [outcome |-> "raised"]
            ELSE IF sms_phone = <<>> /\ sms_address = <<>> THEN [outcome |-> "skipped"]
            ELSE IF \E j \in H : Raises(hist_phone(j)) THEN [outcome |-> "raised"]
            ELSE Matches(sms_phone, sms_address,
                    SelectSeq([j \in H |-> j],
                        LAMBDA j : PhoneMatch(sms_phone, hist_phone(j), sms_name, hist_name(j))),
                    SelectSeq([j \in H |-> j],
                        LAMBDA j : AddressMatch(sms_address, hist_address(j))))
    IN  Cleaned(CleanPhoneTable[sms_row.Phone], CleanAddressTable[sms_row.Address],
                NormName(sms_row.Name))

\* `if phone_matches or address_matches:`
IsFlagged(scan) == scan.phone_matches # <<>> \/ scan.address_matches # <<>>

\* the dict appended by find_duplicates_for_chunk
ChunkDuplicateRecord(idx, sms_row, scan) ==
    [sms_index |-> idx, sms_name |-> sms_row.Name, sms_phone |-> scan.sms_phone,
     sms_address |-> scan.sms_address, sms_book |-> sms_row.Book,
     phone_matches |-> scan.phone_matches, address_matches |-> scan.address_matches]

\* the dict appended by _find_duplicates_sequential
SequentialDuplicateRecord(idx, sms_row, scan) ==
    [sms_index |-> idx, sms_name |-> sms_row.Name, sms_phone |-> scan.sms_phone,
     sms_address |-> scan.sms_address, sms_book |-> sms_row.Book,
     phone_matches |-> scan.phone_matches, address_matches |-> scan.address_matches,
     total_matches |-> Len(scan.phone_matches) + Len(scan.address_matches),
     is_duplicate |-> TRUE]

\* what the row loop leaves behind for one scanned request (kept for the
\* properties: the evidence lists are locals of the loop body)
ScanLog(idx, scan) ==
    [sms_index |-> idx, phone_matches |-> scan.phone_matches,
     address_matches |-> scan.address_matches]

ProgressEvery == 10

Min(a, b) == IF a < b THEN a ELSE b

Max(a, b) == IF a > b THEN a ELSE b

\* _find_duplicates_sequential: rows idx = 0 .. len-1 in order; an exception
\* leaves the loop and the function.
RECURSIVE SequentialLoop(_, _, _, _, _)
SequentialLoop(idx, sms_data, historical_data, progress_callback, acc) ==
    LET \* progress_callback(min(processed, total_records), total_records)
        Called(acc0) ==
            IF progress_callback = "none" THEN acc0
            ELSE [acc0 EXCEPT !.progress = Append(@, Min(acc0.processed, Len(sms_data))),
                              !.status = IF progress_callback = "raises" THEN "raised" ELSE @]
        \* the rest of the loop body after the progress callback
        Body(acc1, scan) ==
            IF acc1.status = "raised" THEN acc1
            ELSE IF scan.outcome = "raised" THEN [acc1 EXCEPT !.status = "raised"]
            ELSE IF scan.outcome = "skipped"
            THEN SequentialLoop(idx + 1, sms_data, historical_data, progress_callback, acc1)
            ELSE SequentialLoop(idx + 1, sms_data, historical_data, progress_callback,
                    [acc1 EXCEPT
                        !.duplicates =
                            IF IsFlagged(scan)
                            THEN Append(@, SequentialDuplicateRecord(idx, sms_data[idx + 1], scan))
                            ELSE @,
                        !.scanned = @ \cup {ScanLog(idx, scan)},
                        !.processed = @ + 1])
        Ended(acc1) == IF acc1.status = "raised" THEN acc1 ELSE [acc1 EXCEPT !.status = "returned"]
    IN  IF idx >= Len(sms_data)
        THEN Ended(Called(acc))
        ELSE Body(IF idx % ProgressEvery = 0 THEN Called(acc) ELSE acc,
                  ScanRow(sms_data[idx + 1], historical_data))

_find_duplicates_sequential(sms_data, historical_data, progress_callback) ==
    SequentialLoop(0, sms_data, historical_data, progress_callback,
        [status |-> "running", duplicates |-> <<>>, scanned |-> {}, processed |-> 0,
         progress |-> <<>>])

\* ------------------------------------------------------------------------
\* Requests, ledger rows, batches and ledgers of the checked passes
\* ------------------------------------------------------------------------

ReqJohn == Row(TxtJohnSmith, Phone10, AddrOak, BookGG)
ReqJaneSharedPhone == Row(TxtJaneDoe, PhoneFormatted, TxtEmpty, BookGG)
ReqNoContact == Row(TxtJaneDoe, PhoneShort, NaN, BookGG)
ReqAddrOnly == Row(TxtAlRoe, PhoneOther, AddrMainSt, BookJKR)
ReqBoth == Row(TxtJohnSmithLower, PhoneFloat, AddrMainStreet, TxtEmpty)
ReqNoName == Row(TxtBlank, Phone10, TxtEmpty, BookGG)
ReqOtherNumber == Row(TxtAlRoe, TxtEmpty, AddrOtherNumber, BookGG)
ReqHuge == Row(TxtAlRoe, PhoneHuge, AddrMainSt, BookGG)
ReqJaneNoPhone == Row(TxtJaneDoe, TxtEmpty, AddrOak, BookGG)
ReqStreetOnly == Row(TxtAlRoe, PhoneOther, AddrStreetOnly, BookJKR)

HistJohn == Row(TxtJohnSmithLower, Phone11, AddrMainStreet, BookGG)
HistJohnAgain == Row(TxtJohnSmith, PhoneFormatted, AddrMainSt, BookJKR)
HistNoName == Row(TxtBlank, PhoneFloat, NaN, BookGG)
HistJane == Row(TxtJaneDoe, PhoneShort, AddrOtherNumber, BookJKR)
HistStreetOnly == Row(TxtJaneDoe, Phone10, AddrStreetOnly, BookGG)

Ledgers ==
    { <<HistJohn, HistNoName>>, <<HistJane, HistJohn, HistJohnAgain>>, <<HistStreetOnly>> }

\* a ledger row without name and phone
HistAddressOnly == Row(NaN, NaN, AddrMainStreet, BookGG)

\* sheets that hold no row, or only rows without name and phone
EmptyLedgers == { <<>>, <<HistAddressOnly>>, <<HistAddressOnly, HistAddressOnly>> }

\* All_Sent_Records.xlsx as find_duplicates may meet it: a sheet with its
\* rows, no file, a file read_excel cannot parse, a sheet without the Name
\* and Phone columns
LedgerFiles ==
    [status : {"ok"}, rows : Ledgers \cup EmptyLedgers]
        \cup [status : {"missing", "unreadable", "no_columns"}, rows : {<<>>}]

\* _load_all_sent_records: the rows of the sheet that have a name or a phone;
\* an empty frame when the file is missing, when read_excel raises and when
\* dropna raises KeyError.  No row is dropped from a frame that keeps rows
\* here, so positions are the index labels.
_load_all_sent_records(status, rows) ==
    IF status # "ok" THEN <<>>
    ELSE SelectSeq(rows, LAMBDA r : ~(IsNa(r.Name) /\ IsNa(r.Phone)))

BatchSmall == <<ReqJohn, ReqNoContact, ReqAddrOnly>>

BatchSmallHuge == <<ReqBoth, ReqHuge, ReqJohn>>

\* requests without a phone and without a name
BatchSmallEmpty == <<ReqJaneNoPhone, ReqNoName, ReqJohn, ReqStreetOnly>>

BatchTen ==
    <<ReqJohn, ReqJaneSharedPhone, ReqNoContact, ReqAddrOnly, ReqBoth,
      ReqNoName, ReqOtherNumber, ReqJohn, ReqNoContact, ReqAddrOnly>>

BatchTenHuge == [BatchTen EXCEPT ![5] = ReqHuge]

BatchEleven == BatchTen \o <<ReqBoth>>

\* ten requests that all have a phone or an address
BatchTenContact ==
    <<ReqJohn, ReqJaneSharedPhone, ReqAddrOnly, ReqBoth, ReqNoName,
      ReqOtherNumber, ReqJohn, ReqAddrOnly, ReqBoth, ReqJohn>>

Batches ==
    {BatchSmall, BatchSmallHuge, BatchSmallEmpty, BatchTen, BatchTenHuge, BatchEleven,
     BatchTenContact}

\* largest max_workers tried
MaxWorkers == 2

\* ------------------------------------------------------------------------
\* Send-Gate: UIComponents._was_message_already_sent and
\* UIComponents._is_historical_customer, over the rows df of
\* All_Sent_Records.xlsx
\* ------------------------------------------------------------------------

\* Python truthiness of a cell value: '' and None are falsy, NaN and any
\* other text are truthy
Truthy(v) == v # <<>>

\* try: str(int(float(text)))  except (ValueError, TypeError): text
\* An OverflowError is not caught here.
PhoneNormalized(text) ==
    LET Parsed(r) == IF r.kind = "ok" THEN r.txt
                     ELSE IF r.kind = "Overflow" THEN OverflowError
                     ELSE text
    IN  Parsed(IntOfFloat(text))

\* `current_book == record_book and current_book != ''`
SameBook(current_book, record_book) == current_book = record_book /\ current_book # <<>>

\* `for _, record in df.iterrows():` from row i on; the outer
\* `except Exception: return False` ends the loop at a record whose phone
\* overflows
RECURSIVE RecordLoop(_, _, _, _, _)
RecordLoop(i, df, current_name, current_phone_normalized, current_book) ==
    LET Compared(record_name, record_phone_normalized, record_book) ==
            IF Raises(record_phone_normalized) THEN FALSE
            ELSE IF /\ record_name = current_name
                    /\ record_phone_normalized = current_phone_normalized
                    /\ record_phone_normalized # <<>>
                    /\ SameBook(current_book, record_book)
            THEN TRUE
            ELSE RecordLoop(i + 1, df, current_name, current_phone_normalized, current_book)
    IN  IF i > Len(df) THEN FALSE
        ELSE Compared(StrLower(Strip(Str(df[i].Name))),
                      PhoneNormalized(Strip(Str(df[i].Phone))),
                      StrUpper(Strip(Str(df[i].Book))))

_was_message_already_sent(name, phone, book, df) ==
    LET Normalized(current_phone_normalized) ==
            IF Raises(current_phone_normalized) THEN FALSE
            ELSE RecordLoop(1, df, StrLower(Strip(Str(name))), current_phone_normalized,
                            IF Truthy(book) THEN StrUpper(Strip(Str(book))) ELSE <<>>)
    IN  Normalized(PhoneNormalized(Strip(Str(phone))))

\* a predicate that matches by the raw phone text only
_is_historical_customer_by_phone(name, phone, df) ==
    \E i \in 1..Len(df) :
        Strip(Str(df[i].Phone)) = Strip(Str(phone)) /\ Strip(Str(df[i].Phone)) # <<>>

_is_historical_customer(name, phone, df) ==
    LET Matches(current_name, current_phone, record_name, record_phone) ==
            \/ record_name = current_name /\ record_name # <<>>
            \/ record_phone = current_phone /\ record_phone # <<>>
    IN  \E i \in 1..Len(df) :
            Matches(StrLower(Strip(Str(name))), Strip(Str(phone)),
                    StrLower(Strip(Str(df[i].Name))), Strip(Str(df[i].Phone)))

\* ------------------------------------------------------------------------
\* The SMS send pass: UIComponents._send_sms_messages and
\* UIComponents._create_new_records_file
\* ------------------------------------------------------------------------

\* `if not row.get('Name') or not row.get('Phone') or str(...).strip() == ''`
EmptyRecord(row) ==
    \/ ~Truthy(row.Name) \/ ~Truthy(row.Phone)
    \/ Strip(Str(row.Name)) = <<>> \/ Strip(Str(row.Phone)) = <<>>

\* `if pd.isna(book) or book == '' or str(book).lower() == 'nan': book = 'GG'`
DefaultBook(book) ==
    IF IsNa(book) \/ book = <<>> \/ StrLower(Str(book)) = <<"n", "a", "n">> THEN BookGG ELSE book

\* a value written by to_excel and read back by read_excel: an empty text
\* cell comes back as NaN
ExcelCell(v) == IF v = <<>> THEN NaN ELSE v

\* the dict built for a successful result from its row of the batch
NewRecord(sms_record) ==
    Row(ExcelCell(sms_record.Name), ExcelCell(sms_record.Phone),
        ExcelCell(sms_record.Address), ExcelCell(DefaultBook(sms_record.Book)))

\* result.get(key) as a truth value: None when the result has no such key
ResultGet(result, key) == IF key \in DOMAIN result THEN result[key] ELSE FALSE

\* a record for every result that was not skipped
RECURSIVE NewRecordsOfAllSent(_, _)
NewRecordsOfAllSent(results, sms_df) ==
    IF results = <<>> THEN <<>>
    ELSE IF ResultGet(Head(results), "skipped")
    THEN NewRecordsOfAllSent(Tail(results), sms_df)
    ELSE <<NewRecord(sms_df[Head(results).record_index + 1])>>
             \o NewRecordsOfAllSent(Tail(results), sms_df)

\* new_records: one per result that is a success and not skipped
\* (`if not result.get('success') or result.get('skipped'): continue`);
\* every such result carries the name, the phone and the index of its row
RECURSIVE NewRecords(_, _)
NewRecords(results, sms_df) ==
    IF results = <<>> THEN <<>>
    ELSE IF ~ResultGet(Head(results), "success") \/ ResultGet(Head(results), "skipped")
    THEN NewRecords(Tail(results), sms_df)
    ELSE <<NewRecord(sms_df[Head(results).record_index + 1])>>
             \o NewRecords(Tail(results), sms_df)

\* ------------------------------------------------------------------------
\* State
\* ------------------------------------------------------------------------

VARIABLES
    historical_data,  \* the rows of All_Sent_Records.xlsx, the ledger
    sms_data,         \* the batch of requests (st.session_state.sms_data)
    ledger_status,    \* the file All_Sent_Records.xlsx: "ok", "missing", "unreadable", "no_columns"
    progress_callback, \* find_duplicates(progress_callback=...): "none", "returns", "raises"
    max_workers,      \* find_duplicates(max_workers=...)
    seq_call,         \* outcome of find_duplicates(use_multithreading=False)
    par_status,       \* "idle", "running", "returned", "raised": the multithreaded call
    sms_chunks,       \* <<lo, hi>>: rows lo .. hi-1 of sms_data
    worker,           \* per chunk: status, pos (next row), chunk_duplicates
    processed_count,  \* the shared progress counter
    progress_lock,    \* 0 when free, else the chunk whose worker holds it
    progress_calls,   \* the counts passed to progress_callback
    duplicates,       \* the list collected by the multithreaded call
    collected,        \* chunks whose future the main thread has consumed
    scanned,          \* ScanLog of every request the multithreaded call scanned
    send_pos,         \* row position of the running send pass, -1 between passes
    message_type,     \* "SMS", "WhatsApp" or "Both": the send pass; "none" before the first
    results,          \* the results list of the send pass
    dispatched,       \* every message a provider accepted, in order
    passes,           \* send passes started
    gate_call,        \* the last send-gate call and its result
    fn_call,          \* the last call of a normalizer or matcher and its result
    validation        \* the run of AddressValidator.validate_addresses

detect_vars ==
    <<ledger_status, progress_callback, max_workers, seq_call, par_status, sms_chunks, worker, processed_count, progress_lock,
      progress_calls, duplicates, collected, scanned>>

send_vars == <<send_pos, message_type, results, dispatched, passes>>

vars == <<historical_data, sms_data, detect_vars, send_vars, gate_call, fn_call, validation>>

\* no run of validate_addresses: df the frame, task the state of each row's
\* validation, results the list the run builds, processed the progress counter
ValidationIdle ==
    [status |-> "idle", gmaps |-> "client", df |-> <<>>, use_multithreading |-> FALSE,
     max_workers |-> 1, task |-> <<>>, results |-> <<>>, processed |-> 0]

\* `if len(sms_data) < 10:` fall back to the sequential loop
MinParallel == 10

\* chunk_size = max(1, len(sms_data) // max_workers); range(0, len, chunk_size)
ChunkSize(n, w) == Max(1, n \div w)

Chunks(n, w) ==
    LET size == ChunkSize(n, w)
        count == (n + size - 1) \div size
    IN  [c \in 1..count |-> <<(c - 1) * size, Min(c * size, n)>>]

Running(c) == worker[c].status \in {"scan", "wait", "locked", "adding"}

Finished(c) == worker[c].status \in {"done", "failed"}

\* no detection pass has been started
DetectIdle ==
    /\ seq_call = [status |-> "none"]
    /\ par_status = "idle"
    /\ sms_chunks = <<>>
    /\ worker = <<>>
    /\ processed_count = 0
    /\ progress_lock = 0
    /\ progress_calls = <<>>
    /\ duplicates = <<>>
    /\ collected = {}
    /\ scanned = {}

InitDetect ==
    /\ \E f \in LedgerFiles : ledger_status = f.status /\ historical_data = f.rows
    /\ sms_data \in Batches
    /\ progress_callback \in {"none", "returns", "raises"}
    /\ max_workers \in 1..MaxWorkers
    /\ DetectIdle
    /\ send_pos = -1
    /\ results = <<>>
    /\ dispatched = <<>>
    /\ passes = 0
    /\ message_type = "none"
    /\ validation = ValidationIdle
    /\ gate_call = [fn |-> "none"]
    /\ fn_call = [fn |-> "none"]

\* historical_data = self._load_all_sent_records()
LoadedLedger == _load_all_sent_records(ledger_status, historical_data)

\* a call that ends with an exception where the empty frame is returned
HistoryRequired ==
    [status |-> "raised", duplicates |-> <<>>, scanned |-> {}, processed |-> 0,
     progress |-> <<>>]

\* `if historical_data.empty:` st.warning(...) and `return pd.DataFrame()`
NoHistory ==
    [status |-> "returned", duplicates |-> <<>>, scanned |-> {}, processed |-> 0,
     progress |-> <<>>]

\* find_duplicates(sms_data, use_multithreading=False)
CallSequential ==
    LET Loaded(historical) ==
            seq_call' = IF historical = <<>> THEN NoHistory
                        ELSE _find_duplicates_sequential(sms_data, historical, progress_callback)
    IN  /\ seq_call.status = "none"
        /\ Loaded(_load_all_sent_records(ledger_status, historical_data))
        /\ UNCHANGED <<send_vars, gate_call, fn_call, validation, historical_data, sms_data, ledger_status,
                   progress_callback, max_workers, par_status, sms_chunks, worker,
                   processed_count, progress_lock, progress_calls, duplicates, collected,
                   scanned>>

\* find_duplicates(sms_data, use_multithreading=True) without historical
\* records: the empty frame is returned before any path is taken
CallMultithreadedNoHistory ==
    /\ seq_call.status # "none"
    /\ par_status = "idle"
    /\ LoadedLedger = <<>>
    /\ par_status' = "returned"
    /\ UNCHANGED <<send_vars, gate_call, fn_call, validation, historical_data, sms_data, ledger_status,
                   progress_callback, max_workers, seq_call, sms_chunks, worker,
                   processed_count, progress_lock, progress_calls, duplicates, collected,
                   scanned>>

\* find_duplicates(sms_data, use_multithreading=True) on a batch below
\* MinParallel: _find_duplicates_multithreaded returns the sequential result
CallMultithreadedSmall ==
    LET Returned(r) ==
            /\ par_status' = r.status
            /\ duplicates' = r.duplicates
            /\ scanned' = r.scanned
            /\ progress_calls' = r.progress
    IN  /\ seq_call.status # "none"
        /\ par_status = "idle"
        /\ LoadedLedger # <<>>
        /\ Len(sms_data) < MinParallel
        /\ Returned(_find_duplicates_sequential(sms_data, LoadedLedger, progress_callback))
        /\ UNCHANGED <<send_vars, gate_call, fn_call, validation, historical_data, sms_data, ledger_status,
                   progress_callback, max_workers, seq_call, sms_chunks, worker,
                       processed_count, progress_lock, collected>>

\* _find_duplicates_multithreaded up to the submission of every chunk
SubmitChunks ==
    /\ seq_call.status # "none"
    /\ par_status = "idle"
    /\ LoadedLedger # <<>>
    /\ Len(sms_data) >= MinParallel
    /\ par_status' = "running"
    /\ sms_chunks' = Chunks(Len(sms_data), max_workers)
    /\ worker' = [c \in 1..Len(sms_chunks') |->
                     [status |-> "pending", pos |-> sms_chunks'[c][1], chunk_duplicates |-> <<>>,
                      count |-> 0]]
    /\ UNCHANGED <<send_vars, gate_call, fn_call, validation, historical_data, sms_data, ledger_status,
                   progress_callback, max_workers, seq_call, processed_count,
                   progress_lock, progress_calls, duplicates, collected, scanned>>

\* a pool thread takes the oldest queued chunk
StartChunk(c) ==
    /\ par_status = "running"
    /\ worker[c].status = "pending"
    /\ \A d \in 1..(c - 1) : worker[d].status # "pending"
    /\ Cardinality({d \in DOMAIN worker : Running(d)}) < max_workers
    /\ worker' = [worker EXCEPT ![c].status = "scan"]
    /\ UNCHANGED <<send_vars, gate_call, fn_call, validation, historical_data, sms_data, ledger_status,
                   progress_callback, max_workers, seq_call, par_status, sms_chunks,
                   processed_count, progress_lock, progress_calls, duplicates, collected,
                   scanned>>

AfterRow(c) == IF worker[c].pos + 1 >= sms_chunks[c][2] THEN "done" ELSE "scan"

\* find_duplicates_for_chunk: one row up to the progress update
ScanRequest(c) ==
    LET Scanned(idx, scan) ==
            IF scan.outcome = "raised"
            THEN /\ worker' = [worker EXCEPT ![c].status = "failed",
                                             ![c].chunk_duplicates = <<>>]
                 /\ scanned' = scanned
            ELSE IF scan.outcome = "skipped"
            THEN /\ worker' = [worker EXCEPT ![c].status = AfterRow(c), ![c].pos = idx + 1]
                 /\ scanned' = scanned
            ELSE /\ worker' = [worker EXCEPT
                                 ![c].status = "wait",
                                 ![c].chunk_duplicates =
                                     IF IsFlagged(scan)
                                     THEN Append(@, ChunkDuplicateRecord(idx, sms_data[idx + 1], scan))
                                     ELSE @]
                 /\ scanned' = scanned \cup {ScanLog(idx, scan)}
    IN  /\ par_status = "running"
        /\ worker[c].status = "scan"
        /\ Scanned(worker[c].pos, ScanRow(sms_data[worker[c].pos + 1], LoadedLedger))
        /\ UNCHANGED <<send_vars, gate_call, fn_call, validation, historical_data, sms_data, ledger_status,
                   progress_callback, max_workers, seq_call, par_status, sms_chunks,
                       processed_count, progress_lock, progress_calls, duplicates, collected>>

\* a lock that never keeps a thread out
LockIgnored == TRUE

\* `with progress_lock:` lets one thread in at a time
LockFree == progress_lock = 0

\* `with progress_lock:` entered
AcquireLock(c) ==
    /\ par_status = "running"
    /\ worker[c].status = "wait"
    /\ LockFree
    /\ progress_lock' = c
    /\ worker' = [worker EXCEPT ![c].status = "locked"]
    /\ UNCHANGED <<send_vars, gate_call, fn_call, validation, historical_data, sms_data, ledger_status,
                   progress_callback, max_workers, seq_call, par_status, sms_chunks,
                   processed_count, progress_calls, duplicates, collected, scanned>>

\* `processed_count += 1`, first half: the counter is read
ReadCount(c) ==
    /\ par_status = "running"
    /\ worker[c].status = "locked"
    /\ worker' = [worker EXCEPT ![c].status = "adding", ![c].count = processed_count]
    /\ UNCHANGED <<send_vars, gate_call, fn_call, validation, historical_data, sms_data, ledger_status,
                   progress_callback, max_workers, seq_call, par_status, sms_chunks,
                   processed_count, progress_lock, progress_calls, duplicates, collected,
                   scanned>>

\* `processed_count += 1`, second half: the sum is stored and the value read
\* is dropped; then the rest of the `with` block and its exit.  A raising
\* callback ends the chunk.
UpdateProgress(c) ==
    LET Called == progress_callback # "none" /\ processed_count' % ProgressEvery = 0
    IN  /\ par_status = "running"
        /\ worker[c].status = "adding"
        /\ processed_count' = worker[c].count + 1
        /\ progress_calls' = IF Called
                             THEN Append(progress_calls, Min(processed_count', Len(sms_data)))
                             ELSE progress_calls
        /\ progress_lock' = 0
        /\ worker' = IF Called /\ progress_callback = "raises"
                     THEN [worker EXCEPT ![c].status = "failed", ![c].chunk_duplicates = <<>>,
                                         ![c].count = 0]
                     ELSE [worker EXCEPT ![c].status = AfterRow(c), ![c].pos = @ + 1,
                                         ![c].count = 0]
        /\ UNCHANGED <<send_vars, gate_call, fn_call, validation, historical_data, sms_data, ledger_status,
                   progress_callback, max_workers, seq_call, par_status, sms_chunks,
                   duplicates, collected, scanned>>

\* one turn of `for future in as_completed(...)`: a chunk's list is appended,
\* a chunk's exception is caught and printed
CollectChunk(c) ==
    /\ par_status = "running"
    /\ Finished(c)
    /\ c \notin collected
    /\ collected' = collected \cup {c}
    /\ duplicates' = IF worker[c].status = "done"
                     THEN duplicates \o worker[c].chunk_duplicates
                     ELSE duplicates
    /\ UNCHANGED <<send_vars, gate_call, fn_call, validation, historical_data, sms_data, ledger_status,
                   progress_callback, max_workers, seq_call, par_status, sms_chunks,
                   worker, processed_count, progress_lock, progress_calls, scanned>>

\* the final progress update and `return pd.DataFrame(duplicates)`
ReturnMultithreaded ==
    /\ par_status = "running"
    /\ collected = DOMAIN worker
    /\ progress_calls' = IF progress_callback = "none" THEN progress_calls
                         ELSE Append(progress_calls, Len(sms_data))
    /\ par_status' = IF progress_callback = "raises" THEN "raised" ELSE "returned"
    /\ UNCHANGED <<send_vars, gate_call, fn_call, validation, historical_data, sms_data, ledger_status,
                   progress_callback, max_workers, seq_call, sms_chunks, worker,
                   processed_count, progress_lock, duplicates, collected, scanned>>

NextDetect ==
    \/ CallSequential
    \/ CallMultithreadedNoHistory
    \/ CallMultithreadedSmall
    \/ SubmitChunks
    \/ \E c \in DOMAIN worker : StartChunk(c)
    \/ \E c \in DOMAIN worker : ScanRequest(c)
    \/ \E c \in DOMAIN worker : AcquireLock(c)
    \/ \E c \in DOMAIN worker : ReadCount(c)
    \/ \E c \in DOMAIN worker : UpdateProgress(c)
    \/ \E c \in DOMAIN worker : CollectChunk(c)
    \/ ReturnMultithreaded

Spec == InitDetect /\ [][NextDetect]_vars

\* ------------------------------------------------------------------------
\* Send passes
\* ------------------------------------------------------------------------

RowJohnGG == Row(TxtJohnSmith, Phone10, AddrOak, BookGG)
RowJohnJKR == Row(TxtJohnSmith, Phone10, AddrOak, BookJKR)
RowJohnLong == Row(TxtJohnSmith, Phone11, TxtEmpty, TxtEmpty)
RowJane == Row(TxtJaneDoe, PhoneOther, TxtEmpty, NaN)
RowNoPhone == Row(TxtAlRoe, TxtEmpty, AddrOak, BookGG)

SendBatches ==
    { <<RowJohnGG, RowJane>>,
      <<RowJohnGG, RowJohnJKR, RowJohnGG>>,
      <<RowJohnLong, RowNoPhone, RowJane>> }

SendLedgers == { <<>>, <<HistJohn>> }

\* number of send passes followed
MaxPasses == 2

InitSend ==
    /\ historical_data \in SendLedgers
    /\ sms_data \in SendBatches
    /\ send_pos = -1
    /\ results = <<>>
    /\ dispatched = <<>>
    /\ passes = 0
    /\ message_type = "none"
    /\ validation = ValidationIdle
    /\ gate_call = [fn |-> "none"]
    /\ fn_call = [fn |-> "none"]
    /\ ledger_status = "ok"
    /\ progress_callback = "none"
    /\ max_workers = 1
    /\ DetectIdle

\* the kinds of send pass: _send_sms_messages, _send_whatsapp_messages,
\* _send_both_messages
MessageTypes == {"SMS", "WhatsApp", "Both"}

\* a send button: the pass of the chosen kind starts on the batch of the session
StartSend ==
    /\ send_pos = -1
    /\ passes < MaxPasses
    /\ \E batch \in SendBatches : sms_data' = batch
    /\ \E type \in MessageTypes : message_type' = type
    /\ send_pos' = 0
    /\ results' = <<>>
    /\ passes' = passes + 1
    /\ UNCHANGED <<historical_data, dispatched, gate_call, fn_call, validation, detect_vars>>

\* the empty-row test of the WhatsApp and the Both pass:
\* `if not row.get('Name') or not row.get('Phone'):`
EmptyNameOrPhone(row) == ~Truthy(row.Name) \/ ~Truthy(row.Phone)

\* the dict of message_sender.send_both_messages after result.update(...):
\* it has the keys whatsapp, sms, overall_success and status, and no key
\* success
BothResult(whatsapp, sms, idx) ==
    [whatsapp |-> [success |-> whatsapp], sms |-> [success |-> sms],
     overall_success |-> whatsapp \/ sms, record_index |-> idx]

\* one turn of the row loop of the send pass; the choice of the message
\* template (by _is_historical_customer) changes no state and is left out
SendRow ==
    LET Skipped == [success |-> FALSE, skipped |-> TRUE, record_index |-> send_pos]
        Dispatched(row, book, ok) ==
            dispatched' = IF ok
                          THEN Append(dispatched,
                                      [Name |-> row.Name, Phone |-> row.Phone, Book |-> book])
                          ELSE dispatched
        \* result of message_sender.send_sms_message or send_whatsapp_message,
        \* then result.update(...)
        Sent(row, book, ok) ==
            /\ results' = Append(results,
                                 [success |-> ok, skipped |-> FALSE, record_index |-> send_pos])
            /\ Dispatched(row, book, ok)
        SentBoth(row, book, whatsapp, sms) ==
            /\ results' = Append(results, BothResult(whatsapp, sms, send_pos))
            /\ Dispatched(row, book, whatsapp \/ sms)
        Gate(row, book) ==
            IF _was_message_already_sent(row.Name, row.Phone, book, historical_data)
            THEN results' = Append(results, Skipped) /\ dispatched' = dispatched
            ELSE IF message_type = "Both"
            THEN \E whatsapp, sms \in BOOLEAN : SentBoth(row, book, whatsapp, sms)
            ELSE \E ok \in BOOLEAN : Sent(row, book, ok)
        Body(row) ==
            IF (IF message_type = "SMS" THEN EmptyRecord(row) ELSE EmptyNameOrPhone(row))
            THEN results' = Append(results, Skipped) /\ dispatched' = dispatched
            ELSE Gate(row, DefaultBook(row.Book))
    IN  /\ send_pos >= 0
        /\ send_pos < Len(sms_data)
        /\ Body(sms_data[send_pos + 1])
        /\ send_pos' = send_pos + 1
        /\ UNCHANGED <<historical_data, sms_data, message_type, passes, gate_call, fn_call, validation,
                       detect_vars>>

\* the end of the pass: _create_new_records_file(results, message_type)
\* appends the new records to All_Sent_Records.xlsx
FinishSend ==
    /\ send_pos = Len(sms_data)
    /\ historical_data' = historical_data \o NewRecords(results, sms_data)
    /\ send_pos' = -1
    /\ UNCHANGED <<sms_data, message_type, results, dispatched, passes, gate_call, fn_call, validation,
                   detect_vars>>

NextSend ==
    \/ StartSend
    \/ SendRow
    \/ FinishSend

SendSpec == InitSend /\ [][NextSend]_vars

\* ------------------------------------------------------------------------
\* Send-gate calls on drawn ledgers and requests
\* ------------------------------------------------------------------------

GateJohnGG == Row(TxtJohnSmithLower, PhoneFloat, NaN, BookGGLower)
GateJohnJKR == Row(TxtJohnSmith, Phone10, NaN, BookJKR)
GateJohnLong == Row(TxtJohnSmith, Phone11, NaN, BookGG)
GateJaneGG == Row(TxtJaneDoe, Phone10, NaN, BookGG)
GateJohnNoBook == Row(TxtJohnSmith, Phone10, NaN, TxtBlank)
GateJaneOther == Row(TxtJaneDoe, PhoneOther, NaN, BookJKRLower)

GateRecords ==
    {GateJohnGG, GateJohnJKR, GateJohnLong, GateJaneGG, GateJohnNoBook, GateJaneOther}

\* longest ledger drawn
MaxLedgerLen == 3

GateLedgers == UNION {[1..n -> GateRecords] : n \in 0..MaxLedgerLen}

GateNames == {TxtJohnSmith, TxtJaneDoe, TxtAlRoe}

GatePhones == {Phone10, Phone11, PhoneFloat, PhoneFormatted}

GateBooks == {BookGG, BookJKRLower, TxtEmpty, TxtBlank}

InitGate ==
    /\ historical_data \in GateLedgers
    /\ gate_call = [fn |-> "none"]
    /\ sms_data = <<>>
    /\ send_pos = -1
    /\ results = <<>>
    /\ dispatched = <<>>
    /\ passes = 0
    /\ message_type = "none"
    /\ validation = ValidationIdle
    /\ fn_call = [fn |-> "none"]
    /\ ledger_status = "ok"
    /\ progress_callback = "none"
    /\ max_workers = 1
    /\ DetectIdle

CallWasMessageAlreadySent ==
    /\ gate_call.fn = "none"
    /\ \E name \in GateNames, phone \in GatePhones, book \in GateBooks :
          gate_call' = [fn |-> "_was_message_already_sent", name |-> name, phone |-> phone,
                        book |-> book,
                        result |-> _was_message_already_sent(name, phone, book, historical_data)]
    /\ UNCHANGED <<historical_data, sms_data, send_vars, detect_vars, fn_call, validation>>

CallIsHistoricalCustomer ==
    /\ gate_call.fn = "none"
    /\ \E name \in GateNames, phone \in GatePhones :
          gate_call' = [fn |-> "_is_historical_customer", name |-> name, phone |-> phone,
                        result |-> _is_historical_customer(name, phone, historical_data)]
    /\ UNCHANGED <<historical_data, sms_data, send_vars, detect_vars, fn_call, validation>>

NextGate ==
    \/ CallWasMessageAlreadySent
    \/ CallIsHistoricalCustomer

GateSpec == InitGate /\ [][NextGate]_vars

\* ------------------------------------------------------------------------
\* Calls of the phone normalizer on drawn cell values
\* ------------------------------------------------------------------------

\* cell values: digit strings of 1 to 13 digits, formatted numbers, texts
\* that are no number, and the str() of spreadsheet floats
PhoneTexts ==
    { <<"5">>,
      <<"5", "0", "4", "4", "2", "4", "2">>,
      <<"2", "0", "6", "5", "0", "4", "4", "2", "4">>,
      <<"2", "0", "6", "5", "0", "4", "4", "2", "4", "2">>,
      <<"1", "2", "0", "6", "5", "0", "4", "4", "2", "4", "2">>,
      <<"2", "2", "0", "6", "5", "0", "4", "4", "2", "4", "2">>,
      <<"4", "4", "2", "0", "6", "5", "0", "4", "4", "2", "4", "2">>,
      <<"1", "1", "2", "0", "6", "5", "0", "4", "4", "2", "4", "2">>,
      <<"0", "0", "1", "2", "0", "6", "5", "0", "4", "4", "2", "4", "2">>,
      <<"1", "4", "2", "5", "5", "5", "5", "0", "1", "0", "0">>,
      <<"1", "0", "0", "0", "0", "0", "0", "0", "0", "0", "0">>,
      <<"0", "0", "0", "0", "0", "0", "0", "0", "0", "0">>,
      <<"(", "2", "0", "6", ")", " ", "5", "0", "4", "-", "4", "2", "4", "2">>,
      <<"+", "1", " ", "(", "2", "0", "6", ")", " ", "5", "0", "4", "-", "4", "2", "4", "2">>,
      <<"1", "-", "2", "0", "6", "-", "5", "0", "4", "-", "4", "2", "4", "2">>,
      <<"2", "0", "6", ".", "5", "0", "4", ".", "4", "2", "4", "2">>,
      <<"1", ".", "2", "0", "6", ".", "5", "0", "4", ".", "4", "2", "4", "2">>,
      <<"2", "0", "6", " ", "5", "0", "4", " ", "4", "2", "4", "2", " ", "x", "5">>,
      <<"+", "4", "4", " ", "2", "0", " ", "6", "5", "0", "4", " ", "4", "2", "4", "2">>,
      <<"1", ",", "2", "0", "6", ",", "5", "0", "4", ".", "4", "2", "4", "2">>,
      <<"e", "x", "t", ".", " ", "5">>,
      <<"a", "b", "c">>,
      <<" ", " ", " ">>,
      <<>>,
      <<"n", "a", "n">>,
      <<"i", "n", "f">>,
      <<"i", "n", "f", ".">>,
      <<"1", ".", "2", ".", "3">>,
      <<"1", "2", "a", ".", "0">>,
      <<".">>,
      <<"1", "e", "5", ".">>,
      <<"2", "0", "6", "5", "0", "4", "4", "2", "4", ".", "0">>,
      <<"2", "0", "6", "5", "0", "4", "4", "2", "4", ".", "7">>,
      <<"2", "0", "6", "5", "0", "4", "4", "2", "4", ".">>,
      <<" ", "2", "0", "6", "5", "0", "4", "4", "2", "4", ".", "0", " ">>,
      <<"-", "2", "0", "6", "5", "0", "4", "4", "2", "4", ".", "0">>,
      <<"2", "0", "6", "5", "0", "4", "4", "2", "4", "2", ".", "0">>,
      <<"2", "0", "6", "5", "0", "4", "4", "2", "4", "2", ".", "7">>,
      <<"2", "0", "6", "5", "0", "4", "4", "2", "4", "2", ".">>,
      <<" ", "2", "0", "6", "5", "0", "4", "4", "2", "4", "2", ".", "0", " ">>,
      <<"-", "2", "0", "6", "5", "0", "4", "4", "2", "4", "2", ".", "0">>,
      <<"1", "2", "0", "6", "5", "0", "4", "4", "2", "4", "2", ".", "0">>,
      <<"1", "2", "0", "6", "5", "0", "4", "4", "2", "4", "2", ".", "7">>,
      <<"1", "2", "0", "6", "5", "0", "4", "4", "2", "4", "2", ".">>,
      <<" ", "1", "2", "0", "6", "5", "0", "4", "4", "2", "4", "2", ".", "0", " ">>,
      <<"-", "1", "2", "0", "6", "5", "0", "4", "4", "2", "4", "2", ".", "0">>,
      <<"2", "2", "0", "6", "5", "0", "4", "4", "2", "4", "2", ".", "0">>,
      <<"2", "2", "0", "6", "5", "0", "4", "4", "2", "4", "2", ".", "7">>,
      <<"2", "2", "0", "6", "5", "0", "4", "4", "2", "4", "2", ".">>,
      <<" ", "2", "2", "0", "6", "5", "0", "4", "4", "2", "4", "2", ".", "0", " ">>,
      <<"-", "2", "2", "0", "6", "5", "0", "4", "4", "2", "4", "2", ".", "0">>,
      <<"4", "4", "2", "0", "6", "5", "0", "4", "4", "2", "4", "2", ".", "0">>,
      <<"4", "4", "2", "0", "6", "5", "0", "4", "4", "2", "4", "2", ".", "7">>,
      <<"4", "4", "2", "0", "6", "5", "0", "4", "4", "2", "4", "2", ".">>,
      <<" ", "4", "4", "2", "0", "6", "5", "0", "4", "4", "2", "4", "2", ".", "0", " ">>,
      <<"-", "4", "4", "2", "0", "6", "5", "0", "4", "4", "2", "4", "2", ".", "0">>,
      <<"+", "2", "0", "6", "5", "0", "4", "4", "2", "4", "2", ".", "0">>,
      <<"2", ".", "0", "6", "5", "0", "4", "4", "2", "4", "2", "e", "9">>,
      <<"2", ".", "0", "6", "5", "0", "4", "4", "2", "4", "2", "E", "+", "9">>,
      <<"1", ".", "2", "0", "6", "5", "0", "4", "4", "2", "4", "2", "e", "1", "0">>,
      <<"2", "0", "6", "5", "0", "4", "4", "2", "4", "2", "0", ".", "0", "e", "-", "1">>,
      <<"0", ".", "0">>,
      <<".", "5">>,
      <<"1", ".", "0", "e", "-", "5">>,
      <<"1", ".", "0", "e", "9", "9", "9">>,
      <<"-", "1", ".", "0", "e", "9", "9", "9">> }

PhoneInputs == PhoneTexts \cup {NaN}

InitPhone ==
    /\ fn_call \in [fn : {"none"}, phone : PhoneInputs]
    /\ historical_data = <<>>
    /\ sms_data = <<>>
    /\ gate_call = [fn |-> "none"]
    /\ send_pos = -1
    /\ results = <<>>
    /\ dispatched = <<>>
    /\ passes = 0
    /\ message_type = "none"
    /\ validation = ValidationIdle
    /\ ledger_status = "ok"
    /\ progress_callback = "none"
    /\ max_workers = 1
    /\ DetectIdle

\* self._clean_phone(phone)
CallCleanPhone ==
    /\ fn_call.fn = "none"
    /\ fn_call' = [fn |-> "_clean_phone", phone |-> fn_call.phone,
                   result |-> _clean_phone(fn_call.phone)]
    /\ UNCHANGED <<historical_data, sms_data, send_vars, detect_vars, gate_call, validation>>

\* self._clean_phone(self._clean_phone(phone)), when the first call returned
CallCleanPhoneAgain ==
    /\ fn_call.fn = "_clean_phone"
    /\ ~Raises(fn_call.result)
    /\ fn_call' = [fn |-> "_clean_phone twice", phone |-> fn_call.phone,
                   first |-> fn_call.result, result |-> _clean_phone(fn_call.result)]
    /\ UNCHANGED <<historical_data, sms_data, send_vars, detect_vars, gate_call, validation>>

NextPhone ==
    \/ CallCleanPhone
    \/ CallCleanPhoneAgain

PhoneSpec == InitPhone /\ [][NextPhone]_vars

\* ------------------------------------------------------------------------
\* Calls of the weighted address matcher on drawn pairs of addresses
\* ------------------------------------------------------------------------

\* addresses with and without commas, zip code, city and state, with the
\* street number, street type and the state written short and in full
AddressTexts ==
    { <<"1", "2", "3", " ", "M", "a", "i", "n", " ", "S", "t", " ", "S", "p", "r", "i", "n", "g", "f", "i", "e", "l", "d", " ", "C", "A", " ", "9", "0", "2", "1", "0">>,
      <<"1", "2", "3", " ", "M", "a", "i", "n", " ", "S", "t", "r", "e", "e", "t", " ", "S", "p", "r", "i", "n", "g", "f", "i", "e", "l", "d", " ", "C", "a", "l", "i", "f", "o", "r", "n", "i", "a", " ", "9", "0", "2", "1", "0">>,
      <<"1", "2", "3", " ", "M", "a", "i", "n", " ", "S", "t", ",", " ", "S", "p", "r", "i", "n", "g", "f", "i", "e", "l", "d", ",", " ", "C", "A", " ", "9", "0", "2", "1", "0">>,
      <<"1", "2", "3", " ", "M", "a", "i", "n", " ", "S", "t", "r", "e", "e", "t", ",", " ", "S", "p", "r", "i", "n", "g", "f", "i", "e", "l", "d", ",", " ", "C", "a", "l", "i", "f", "o", "r", "n", "i", "a", " ", "9", "0", "2", "1", "0">>,
      <<"1", "2", "3", " ", "M", "a", "i", "n", " ", "S", "t", " ", "S", "p", "r", "i", "n", "g", "f", "i", "e", "l", "d", " ", "C", "A">>,
      <<"1", "2", "3", " ", "M", "a", "i", "n", " ", "S", "t", "r", "e", "e", "t", " ", "S", "p", "r", "i", "n", "g", "f", "i", "e", "l", "d", " ", "C", "a", "l", "i", "f", "o", "r", "n", "i", "a">>,
      <<"1", "2", "3", " ", "M", "a", "i", "n", " ", "S", "t", ",", " ", "S", "p", "r", "i", "n", "g", "f", "i", "e", "l", "d", ",", " ", "C", "A">>,
      <<"1", "2", "3", " ", "M", "a", "i", "n", " ", "S", "t", "r", "e", "e", "t", ",", " ", "S", "p", "r", "i", "n", "g", "f", "i", "e", "l", "d", ",", " ", "C", "a", "l", "i", "f", "o", "r", "n", "i", "a">>,
      <<"4", "5", "6", " ", "M", "a", "i", "n", " ", "S", "t", " ", "S", "p", "r", "i", "n", "g", "f", "i", "e", "l", "d", " ", "C", "A", " ", "9", "0", "2", "1", "0">>,
      <<"4", "5", "6", " ", "M", "a", "i", "n", " ", "S", "t", ",", " ", "S", "p", "r", "i", "n", "g", "f", "i", "e", "l", "d", ",", " ", "C", "A">>,
      <<"1", "2", "3", " ", "M", "a", "i", "n", " ", "S", "t">>,
      <<"9", " ", "O", "a", "k", " ", "A", "v", "e", " ", "S", "a", "l", "e", "m", " ", "O", "R">>,
      <<"M", "a", "i", "n", " ", "S", "t">> }

InitAddress ==
    /\ fn_call \in [fn : {"none"}, address1 : AddressTexts, address2 : AddressTexts]
    /\ historical_data = <<>>
    /\ sms_data = <<>>
    /\ gate_call = [fn |-> "none"]
    /\ send_pos = -1
    /\ results = <<>>
    /\ dispatched = <<>>
    /\ passes = 0
    /\ message_type = "none"
    /\ validation = ValidationIdle
    /\ ledger_status = "ok"
    /\ progress_callback = "none"
    /\ max_workers = 1
    /\ DetectIdle

\* similarity = self._calculate_address_similarity(sms_address, hist_address)
\* on the cleaned addresses, as the scan of a request calls it
CallAddressSimilarity ==
    LET Cleaned(sms_address, hist_address) ==
            fn_call' = [fn |-> "_calculate_address_similarity",
                        address1 |-> fn_call.address1, address2 |-> fn_call.address2,
                        comp1 |-> _parse_address_components(sms_address),
                        comp2 |-> _parse_address_components(hist_address),
                        result |-> _calculate_address_similarity(sms_address, hist_address)]
    IN  /\ fn_call.fn = "none"
        /\ Cleaned(_clean_address(fn_call.address1), _clean_address(fn_call.address2))
        /\ UNCHANGED <<historical_data, sms_data, send_vars, detect_vars, gate_call, validation>>

NextAddress == CallAddressSimilarity

AddressSpec == InitAddress /\ [][NextAddress]_vars

\* ------------------------------------------------------------------------
\* Calls of the state scorer on drawn pairs of state values
\* ------------------------------------------------------------------------

\* the keys and the values of state_mappings, Mississippi and its code (the
\* table has no entry for them), a code in upper case, a padded name and a
\* city
StateTexts ==
    {state_mappings[i][1] : i \in 1..Len(state_mappings)}
        \cup {state_mappings[i][2] : i \in 1..Len(state_mappings)}
        \cup { <<"m", "s">>,
             <<"m", "i", "s", "s", "i", "s", "s", "i", "p", "p", "i">>,
             <<"C", "A">>,
             <<" ", "C", "a", "l", "i", "f", "o", "r", "n", "i", "a", " ">>,
             <<"s", "p", "r", "i", "n", "g", "f", "i", "e", "l", "d">> }

InitState ==
    /\ fn_call \in [fn : {"none"}, state1 : StateTexts, state2 : StateTexts]
    /\ historical_data = <<>>
    /\ sms_data = <<>>
    /\ gate_call = [fn |-> "none"]
    /\ send_pos = -1
    /\ results = <<>>
    /\ dispatched = <<>>
    /\ passes = 0
    /\ message_type = "none"
    /\ validation = ValidationIdle
    /\ ledger_status = "ok"
    /\ progress_callback = "none"
    /\ max_workers = 1
    /\ DetectIdle

\* score = self._fuzzy_match_state(val1, val2)
CallFuzzyMatchState ==
    /\ fn_call.fn = "none"
    /\ fn_call' = [fn |-> "_fuzzy_match_state",
                   state1 |-> fn_call.state1, state2 |-> fn_call.state2,
                   result |-> _fuzzy_match_state(fn_call.state1, fn_call.state2)]
    /\ UNCHANGED <<historical_data, sms_data, send_vars, detect_vars, gate_call, validation>>

NextState == CallFuzzyMatchState

StateSpec == InitState /\ [][NextState]_vars

\* ------------------------------------------------------------------------
\* AddressValidator.validate_addresses: geocoding with retries
\* ------------------------------------------------------------------------

\* max_retries = 3
max_retries == 3

\* api_delay=0.5, in milliseconds
ApiDelayMs == 500

\* the same delay before every retry
RetryDelayFixed(attempt) == 1000

\* time.sleep(1.0 * (attempt + 1)), in milliseconds
RetryDelayMs(attempt) == 1000 * (attempt + 1)

\* what self.gmaps.geocode(address) does: it returns a list of results, it
\* returns an empty list, or it raises
GeocodeOutcomes == {"found", "empty", "raised"}

\* str(e) of the exception of the last attempt, as far as the handler tells
\* messages apart
ErrorMessages == {<<"OVER_QUERY_LIMIT">>, <<"Timeout">>}

\* result['error'] set by the `except Exception as e:` handler
ErrorText(error_msg) ==
    IF error_msg = <<"OVER_QUERY_LIMIT">> THEN <<"API quota exceeded">>
    ELSE <<"Geocoding error: ">> \o error_msg

AddressNotFound == <<"Address not found">>

\* `address and address != 'nan'` for str(row['Address']) if pd.notna(...) else ''
HasAddress(address) ==
    ~IsNa(address) /\ address # <<>> /\ address # <<"n", "a", "n">>

GeocodeEvent(attempt, outcome) ==
    [kind |-> "geocode", attempt |-> attempt, outcome |-> outcome, ms |-> 0]

SleepEvent(attempt, ms) ==
    [kind |-> "sleep", attempt |-> attempt, outcome |-> "", ms |-> ms]

\* the Address column of the frames validated
AddressFrames ==
    { <<AddrOak, AddrMainSt>>,
      <<AddrOak, TxtEmpty, AddrMainSt>>,
      <<NaN, AddrOak>>,
      <<AddrOak, AddrMainSt, AddrOtherNumber>>,
      <<TxtEmpty, NaN>> }

InitValidate ==
    /\ validation \in { [ValidationIdle EXCEPT !.gmaps = g, !.df = d,
                                               !.use_multithreading = u, !.max_workers = w] :
                            g \in {"client", "none"}, d \in AddressFrames, u \in BOOLEAN,
                            w \in 1..MaxWorkers }
    /\ fn_call = [fn |-> "none"]
    /\ historical_data = <<>>
    /\ sms_data = <<>>
    /\ gate_call = [fn |-> "none"]
    /\ send_pos = -1
    /\ results = <<>>
    /\ dispatched = <<>>
    /\ passes = 0
    /\ message_type = "none"
    /\ ledger_status = "ok"
    /\ progress_callback = "none"
    /\ max_workers = 1
    /\ DetectIdle

Task(status) == [status |-> status, attempt |-> 0, log |-> <<>>, result |-> <<>>]

ValidationResult(i, is_valid, error) == [index |-> i - 1, is_valid |-> is_valid, error |-> error]

\* validate_addresses(df, progress_callback=None, ...): without a client it
\* returns an empty frame; the multithreaded path drops the rows without an
\* address and returns an empty frame when none is left
CallValidateAddresses ==
    LET df == validation.df
        Kept == {i \in DOMAIN df : HasAddress(df[i])}
    IN  /\ validation.status = "idle"
        /\ validation' =
              IF validation.gmaps = "none"
              THEN [validation EXCEPT !.status = "returned"]
              ELSE IF validation.use_multithreading
              THEN [validation EXCEPT
                      !.status = IF Kept = {} THEN "returned" ELSE "running",
                      !.task = [i \in DOMAIN df |->
                                   Task(IF i \in Kept THEN "queued" ELSE "filtered")]]
              ELSE [validation EXCEPT
                      !.status = "running",
                      !.task = [i \in DOMAIN df |-> Task("queued")]]
        /\ UNCHANGED <<historical_data, sms_data, detect_vars, send_vars, gate_call, fn_call>>

ValidationRunning(i) == validation.task[i].status \in {"calling", "sleeping"}

\* sequential path: the loop reaches row i.  A row without an address gets
\* its result at once, then time.sleep(api_delay).
StartRow(i) ==
    /\ validation.status = "running"
    /\ ~validation.use_multithreading
    /\ validation.task[i].status = "queued"
    /\ \A j \in 1..(i - 1) : validation.task[j].status = "done"
    /\ validation' =
          IF HasAddress(validation.df[i])
          THEN [validation EXCEPT !.task[i].status = "calling"]
          ELSE [validation EXCEPT
                  !.task[i].status = "done",
                  !.task[i].log = <<SleepEvent(0, ApiDelayMs)>>,
                  !.results = Append(@, ValidationResult(i, FALSE, <<>>)),
                  !.processed = @ + 1]
    /\ UNCHANGED <<historical_data, sms_data, detect_vars, send_vars, gate_call, fn_call>>

\* multithreaded path: a thread of the pool takes the next submitted
\* address; validate_single_address sleeps api_delay before its first attempt
StartTask(i) ==
    /\ validation.status = "running"
    /\ validation.use_multithreading
    /\ validation.task[i].status = "queued"
    /\ \A j \in 1..(i - 1) : validation.task[j].status # "queued"
    /\ Cardinality({j \in DOMAIN validation.task : ValidationRunning(j)})
           < validation.max_workers
    /\ validation' = [validation EXCEPT !.task[i].status = "calling",
                                        !.task[i].log = <<SleepEvent(0, ApiDelayMs)>>]
    /\ UNCHANGED <<historical_data, sms_data, detect_vars, send_vars, gate_call, fn_call>>

\* one turn of `for attempt in range(max_retries):` with what follows it when
\* the loop ends: the result is filled in, the progress counter is advanced
\* (under progress_lock in the multithreaded path), and the sequential path
\* appends the result and sleeps api_delay
Geocode(i) ==
    LET t == validation.task[i]
        Completed(event, result) ==
            IF validation.use_multithreading
            THEN [validation EXCEPT !.task[i].status = "returned",
                                    !.task[i].log = Append(@, event),
                                    !.task[i].result = <<result>>,
                                    !.processed = @ + 1]
            ELSE [validation EXCEPT !.task[i].status = "done",
                                    !.task[i].log = @ \o <<event, SleepEvent(0, ApiDelayMs)>>,
                                    !.task[i].result = <<result>>,
                                    !.results = Append(@, result),
                                    !.processed = @ + 1]
    IN  /\ validation.status = "running"
        /\ t.status = "calling"
        /\ \E outcome \in GeocodeOutcomes :
              IF outcome = "found"
              THEN validation' = Completed(GeocodeEvent(t.attempt, outcome),
                                          ValidationResult(i, TRUE, <<>>))
              ELSE IF outcome = "empty"
              THEN validation' = Completed(GeocodeEvent(t.attempt, outcome),
                                          ValidationResult(i, FALSE, AddressNotFound))
              ELSE IF t.attempt < max_retries - 1
              THEN validation' = [validation EXCEPT
                                    !.task[i].status = "sleeping",
                                    !.task[i].log = Append(@, GeocodeEvent(t.attempt, outcome))]
              ELSE \E error_msg \in ErrorMessages :
                      validation' = Completed(GeocodeEvent(t.attempt, outcome),
                                             ValidationResult(i, FALSE, ErrorText(error_msg)))
        /\ UNCHANGED <<historical_data, sms_data, detect_vars, send_vars, gate_call, fn_call>>

\* `time.sleep(1.0 * (attempt + 1)); continue`
RetrySleep(i) ==
    LET t == validation.task[i]
    IN  /\ validation.status = "running"
        /\ t.status = "sleeping"
        /\ validation' = [validation EXCEPT
                            !.task[i].status = "calling",
                            !.task[i].attempt = @ + 1,
                            !.task[i].log = Append(@, SleepEvent(t.attempt,
                                                                 RetryDelayMs(t.attempt)))]
        /\ UNCHANGED <<historical_data, sms_data, detect_vars, send_vars, gate_call, fn_call>>

\* one turn of `for future in as_completed(future_to_data):`
CollectResult(i) ==
    /\ validation.status = "running"
    /\ validation.task[i].status = "returned"
    /\ validation' = [validation EXCEPT !.task[i].status = "done",
                                        !.results = Append(@, validation.task[i].result[1])]
    /\ UNCHANGED <<historical_data, sms_data, detect_vars, send_vars, gate_call, fn_call>>

\* `return pd.DataFrame(results)`
ReturnValidation ==
    /\ validation.status = "running"
    /\ \A i \in DOMAIN validation.task : validation.task[i].status \in {"done", "filtered"}
    /\ validation' = [validation EXCEPT !.status = "returned"]
    /\ UNCHANGED <<historical_data, sms_data, detect_vars, send_vars, gate_call, fn_call>>

NextValidate ==
    \/ CallValidateAddresses
    \/ \E i \in DOMAIN validation.task : StartRow(i)
    \/ \E i \in DOMAIN validation.task : StartTask(i)
    \/ \E i \in DOMAIN validation.task : Geocode(i)
    \/ \E i \in DOMAIN validation.task : RetrySleep(i)
    \/ \E i \in DOMAIN validation.task : CollectResult(i)
    \/ ReturnValidation

ValidateSpec == InitValidate /\ [][NextValidate]_vars

\* ------------------------------------------------------------------------
\* The chunking of _find_duplicates_multithreaded on batch lengths and
\* max_workers values
\* ------------------------------------------------------------------------

\* longest batch and largest max_workers drawn
MaxBatchLen == 16
MaxPoolWorkers == 20

InitChunks ==
    /\ fn_call \in [fn : {"none"}, len : MinParallel..MaxBatchLen, max_workers : 1..MaxPoolWorkers]
    /\ historical_data = <<>>
    /\ sms_data = <<>>
    /\ gate_call = [fn |-> "none"]
    /\ send_pos = -1
    /\ results = <<>>
    /\ dispatched = <<>>
    /\ passes = 0
    /\ message_type = "none"
    /\ validation = ValidationIdle
    /\ ledger_status = "ok"
    /\ progress_callback = "none"
    /\ max_workers = 1
    /\ DetectIdle

\* chunk_size and the loop `for i in range(0, len(sms_data), chunk_size)`
SplitChunks ==
    /\ fn_call.fn = "none"
    /\ fn_call' = [fn |-> "sms_chunks", len |-> fn_call.len, max_workers |-> fn_call.max_workers,
                   chunk_size |-> ChunkSize(fn_call.len, fn_call.max_workers),
                   result |-> Chunks(fn_call.len, fn_call.max_workers)]
    /\ UNCHANGED <<historical_data, sms_data, send_vars, detect_vars, gate_call, validation>>

NextChunks == SplitChunks

ChunkSpec == InitChunks /\ [][NextChunks]_vars

\* ------------------------------------------------------------------------
\* Properties
\* ------------------------------------------------------------------------

\* trim and lower-case, trim and upper-case, written out for the properties
TrimLower(v) == StrLower(Strip(Str(v)))

TrimUpper(v) == StrUpper(Strip(Str(v)))

\* the normal forms of section 4.1 and 4.2 on the pools
PhoneNormalForm == [p \in PhonePool |-> _clean_phone(p)]

AddressNormalForm == [a \in AddressPool |-> _clean_address(a)]

\* two phones are equal iff their normal forms are non-empty 11-digit strings
\* and identical
SamePhone(p, q) ==
    /\ Len(PhoneNormalForm[p]) = PhoneDigits
    /\ PhoneNormalForm[p] = PhoneNormalForm[q]

Range(s) == {s[i] : i \in DOMAIN s}

EvidenceOf(d) ==
    [sms_index |-> d.sms_index, phone_matches |-> d.phone_matches,
     address_matches |-> d.address_matches]

HasEvidence(s) == s.phone_matches # <<>> \/ s.address_matches # <<>>

SequentialDone == seq_call.status \in {"returned", "raised"}

\* every request scanned so far, by either path, with its evidence lists
AllScans == scanned \cup (IF SequentialDone THEN seq_call.scanned ELSE {})

\* every DuplicateRecord built so far, by either path
AllDuplicateRecords ==
    Range(duplicates)
        \cup (IF SequentialDone THEN Range(seq_call.duplicates) ELSE {})
        \cup UNION {Range(worker[c].chunk_duplicates) : c \in DOMAIN worker}

Request(s) == sms_data[s.sms_index + 1]

PhoneEvidenceFor(s, j) ==
    \E k \in DOMAIN s.phone_matches : s.phone_matches[k].historical_index = j - 1

\* the same normalized (name, phone, book) triple
SameTriple(a, b) ==
    /\ TrimLower(a.Name) = TrimLower(b.Name)
    /\ SamePhone(a.Phone, b.Phone)
    /\ TrimUpper(a.Book) = TrimUpper(b.Book)

\* C1: across the send passes no two accepted messages carry the same
\* normalized (name, phone, book) triple, also when the triple occurs in two
\* rows of one batch.
C1_DispatchedAtMostOnce ==
    \A i, j \in DOMAIN dispatched :
        i < j => ~SameTriple(dispatched[i], dispatched[j])

\* C2: a request is in the result of find_duplicates if and only if evidence
\* was recorded for it: every returned record has evidence, and every scanned
\* request with evidence is returned.
C2_FlaggedIffEvidence ==
    /\ \A d \in AllDuplicateRecords : HasEvidence(d)
    /\ seq_call.status = "returned" =>
          {d.sms_index : d \in Range(seq_call.duplicates)}
              = {s.sms_index : s \in {t \in seq_call.scanned : HasEvidence(t)}}
    /\ par_status = "returned" =>
          {d.sms_index : d \in Range(duplicates)}
              = {s.sms_index : s \in {t \in scanned : HasEvidence(t)}}

C4_Original ==
    \A s \in AllScans : \A j \in DOMAIN historical_data :
        ( /\ SamePhone(Request(s).Phone, historical_data[j].Phone)
          /\ TrimLower(Request(s).Name) = TrimLower(historical_data[j].Name) )
        => PhoneEvidenceFor(s, j)

\* C4 amended: for every scanned request and ledger record whose phones have
\* the same non-empty 11-digit normal form and whose names are equal and
\* non-empty after trim and lower-casing, phone evidence is recorded for the
\* pair, whatever the raw formatting or letter case.
C4_PhoneEvidenceRecorded ==
    \A s \in AllScans : \A j \in DOMAIN historical_data :
        ( /\ SamePhone(Request(s).Phone, historical_data[j].Phone)
          /\ TrimLower(Request(s).Name) = TrimLower(historical_data[j].Name)
          /\ TrimLower(Request(s).Name) # <<>> )
        => PhoneEvidenceFor(s, j)

\* phone evidence was recorded for a pair whose raw phones and raw names differ
C4_Witness ==
    \E s \in AllScans : \E j \in DOMAIN historical_data :
        /\ SamePhone(Request(s).Phone, historical_data[j].Phone)
        /\ Request(s).Phone # historical_data[j].Phone
        /\ Request(s).Name # historical_data[j].Name
        /\ TrimLower(Request(s).Name) = TrimLower(historical_data[j].Name)
        /\ PhoneEvidenceFor(s, j)

\* C5: whenever the parallel chunked path returns, the sequential path on
\* the same batch and ledger returned too, and both hold the same set of
\* flagged requests with the same evidence.
C5_ParallelEqualsSequential ==
    par_status = "returned" =>
        /\ seq_call.status = "returned"
        /\ {EvidenceOf(d) : d \in Range(duplicates)}
               = {EvidenceOf(d) : d \in Range(seq_call.duplicates)}

\* C9: no DuplicateRecord is built, by either path, for a request whose
\* phone normalizes to the empty string and whose address cleans to the
\* empty string.
C9_NoRecordWithoutContact ==
    \A d \in AllDuplicateRecords :
        ~( /\ PhoneNormalForm[Request(d).Phone] = <<>>
           /\ AddressNormalForm[Request(d).Address] = <<>> )

\* both paths returned a non-empty result on a batch holding a request
\* without phone and address, against a ledger holding a record with that
\* request's name and raw phone
C9_Witness ==
    /\ seq_call.status = "returned" /\ seq_call.duplicates # <<>>
    /\ par_status = "returned" /\ duplicates # <<>> /\ worker # <<>>
    /\ \E i \in DOMAIN sms_data : \E j \in DOMAIN historical_data :
          /\ PhoneNormalForm[sms_data[i].Phone] = <<>>
          /\ AddressNormalForm[sms_data[i].Address] = <<>>
          /\ sms_data[i].Phone = historical_data[j].Phone
          /\ sms_data[i].Name = historical_data[j].Name

\* C10: an exception raised while one request is processed does not leave
\* find_duplicates, and the chunked path returns exactly the records of the
\* chunks that did not fail.
C10_NoPropagation ==
    /\ seq_call.status # "raised"
    /\ par_status # "raised"
    /\ (par_status = "returned" /\ worker # <<>>) =>
          Range(duplicates)
              = UNION {Range(worker[c].chunk_duplicates) :
                          c \in {x \in DOMAIN worker : worker[x].status = "done"}}

\* C6: a call of already_sent is true if and only if a ledger record with
\* the request's normalized name and phone has the same book code after
\* trim and upper-casing.
C6_AlreadySentIffSameBook ==
    gate_call.fn = "_was_message_already_sent" =>
        ( gate_call.result
          <=> \E i \in DOMAIN historical_data :
                 /\ TrimLower(historical_data[i].Name) = TrimLower(gate_call.name)
                 /\ SamePhone(historical_data[i].Phone, gate_call.phone)
                 /\ TrimUpper(historical_data[i].Book) = TrimUpper(gate_call.book) )

\* C7: already_sent treats the request phone and a ledger phone as the same
\* exactly when their section 4.1 normal forms are non-empty and identical:
\* among the records with the request's name and book, one with the same
\* normal form makes the call true, and a true call has one.
C7_GateUsesPhoneNormalizer ==
    gate_call.fn = "_was_message_already_sent" =>
        LET Candidates ==
                {i \in DOMAIN historical_data :
                    /\ TrimLower(historical_data[i].Name) = TrimLower(gate_call.name)
                    /\ TrimUpper(historical_data[i].Book) = TrimUpper(gate_call.book)
                    /\ TrimUpper(gate_call.book) # <<>>}
        IN  gate_call.result
                = (\E i \in Candidates : SamePhone(historical_data[i].Phone, gate_call.phone))

\* C8: a call of is_historical_customer is true if and only if a ledger
\* record has the request's non-empty normalized name or the request's
\* non-empty section 4.1 phone normal form.
C8_HistoricalIffNameOrPhone ==
    gate_call.fn = "_is_historical_customer" =>
        ( gate_call.result
          <=> \E i \in DOMAIN historical_data :
                 \/ /\ TrimLower(historical_data[i].Name) = TrimLower(gate_call.name)
                    /\ TrimLower(gate_call.name) # <<>>
                 \/ SamePhone(historical_data[i].Phone, gate_call.phone) )

\* C11: when All_Sent_Records.xlsx is missing, holds no row, or cannot be
\* read or parsed, a call of find_duplicates never raises and returns an
\* empty result, for every batch and on both paths.
C11_NoLedgerEmptyResult ==
    (ledger_status # "ok" \/ historical_data = <<>>) =>
        /\ seq_call.status \in {"none", "returned"}
        /\ seq_call.status = "returned" => seq_call.duplicates = <<>>
        /\ par_status \in {"idle", "returned"}
        /\ duplicates = <<>>

\* both calls returned on a batch holding an overflowing phone, with a
\* raising callback, although the ledger file could not be parsed
C11_Witness ==
    /\ ledger_status = "unreadable"
    /\ sms_data = BatchTenHuge
    /\ progress_callback = "raises"
    /\ seq_call.status = "returned"
    /\ par_status = "returned"

\* workers that have scanned a request and not yet counted it
Uncounted == {c \in DOMAIN worker : worker[c].status \in {"wait", "locked", "adding"}}

\* the parallel call has made its final progress call
FinalCallMade == progress_callback # "none" /\ par_status \in {"returned", "raised"}

WithoutCallback ==
    IF LoadedLedger = <<>> THEN NoHistory
    ELSE _find_duplicates_sequential(sms_data, LoadedLedger, "none")

\* C13: whether or not a progress callback is supplied and whatever it does,
\* a call of find_duplicates ends as the call without callback ends and
\* returns the same set of DuplicateRecords, on the sequential and on the
\* parallel path.
C13_CallbackHasNoEffect ==
    LET Same(reference) ==
            /\ SequentialDone =>
                  /\ seq_call.status = reference.status
                  /\ seq_call.duplicates = reference.duplicates
            /\ (reference.status = "returned" /\ par_status \in {"returned", "raised"}) =>
                  /\ par_status = "returned"
                  /\ {EvidenceOf(d) : d \in Range(duplicates)}
                         = {EvidenceOf(d) : d \in Range(reference.duplicates)}
    IN  Same(WithoutCallback)

\* an 11-digit canonical phone: eleven digits, the first of them '1'
ValidForm(x) == Len(x) = 11 /\ AllDigits(x) /\ x[1] = "1"

\* C14: every call of normalize_phone returns the empty string or a string
\* of exactly 11 digits whose first digit is '1'.
C14_EmptyOrCanonical ==
    fn_call.fn = "_clean_phone" => (fn_call.result = <<>> \/ ValidForm(fn_call.result))

\* the algorithm of section 4.1: the integer part of a text with a decimal
\* point that parses as a finite number, else the text; its digits; then the
\* four cases on their number
SpecifiedDigits(text) ==
    LET Parsed(number) == OnlyDigits(IF number.kind = "ok" THEN number.txt ELSE text)
    IN  IF HasDot(text) THEN Parsed(IntOfFloat(text)) ELSE OnlyDigits(text)

SpecifiedForm(raw) ==
    LET Cases(d) ==
            IF Len(d) = 10 THEN <<"1">> \o d
            ELSE IF Len(d) = 11 /\ d[1] = "1" THEN d
            ELSE IF Len(d) > 11 THEN SubSeq(d, Len(d) - 10, Len(d))
            ELSE <<>>
    IN  Cases(SpecifiedDigits(Str(raw)))

\* C15: every call of normalize_phone returns what the specified algorithm
\* yields: '1' and the digits for 10 digits, the digits for 11 digits that
\* start with '1', the last 11 digits for more, the empty string otherwise.
C15_AgreesWithAlgorithm ==
    fn_call.fn = "_clean_phone" => fn_call.result = SpecifiedForm(fn_call.phone)

\* C16: on an input that is a valid 11-digit form, normalize_phone returns
\* the input, and applied to its own result it returns the input again.
C16_Idempotent ==
    (fn_call.fn \in {"_clean_phone", "_clean_phone twice"} /\ ValidForm(Str(fn_call.phone))) =>
        /\ fn_call.result = fn_call.phone
        /\ fn_call.fn = "_clean_phone twice" => fn_call.first = fn_call.phone

\* the normalizer was applied twice to a valid 11-digit form
C16_Witness ==
    /\ fn_call.fn = "_clean_phone twice"
    /\ ValidForm(Str(fn_call.phone))
    /\ fn_call.result = fn_call.phone

\* C17: no call of normalize_phone raises; every call returns a value.
C17_NeverRaises ==
    fn_call.fn = "_clean_phone" => fn_call.result # OverflowError

\* ------------------------------------------------------------------------
\* The weighted address matcher
\* ------------------------------------------------------------------------

SimilarityCalled == fn_call.fn = "_calculate_address_similarity"

ComponentNames ==
    {"street_number", "street_name", "street_type", "city", "state", "zip_code"}

ComponentOf(comp, name) ==
    CASE name = "street_number" -> comp.street_number
      [] name = "street_name" -> comp.street_name
      [] name = "street_type" -> comp.street_type
      [] name = "city" -> comp.city
      [] name = "state" -> comp.state
      [] name = "zip_code" -> comp.zip_code

\* the address was parsed and every one of the six components was found
Complete(comp) ==
    /\ ~comp.is_empty
    /\ \A name \in ComponentNames : ComponentOf(comp, name) # <<>>

IsOne(x) == x[1] = x[2]

\* C18: the similarity of any non-empty address that parses into at least
\* one component with itself is 1.0, also when some of its six components
\* are absent.
C18_Reflexive ==
    (/\ SimilarityCalled
     /\ fn_call.address1 = fn_call.address2
     /\ ~fn_call.comp1.is_empty)
        => IsOne(fn_call.result)

\* An address in which the parser finds all six components has similarity
\* 1.0 with itself.
ReflexiveWhenComplete ==
    (/\ SimilarityCalled
     /\ fn_call.address1 = fn_call.address2
     /\ Complete(fn_call.comp1))
        => IsOne(fn_call.result)

\* An address without a street number, city, state and zip code scores
\* below the matching threshold of 0.8 against itself.
IdenticalNotMatched ==
    /\ SimilarityCalled
    /\ fn_call.address1 = fn_call.address2
    /\ ~fn_call.comp1.is_empty
    /\ RLess(fn_call.result, <<4, 5>>)

DifferentStreetNumbers ==
    /\ SimilarityCalled
    /\ ~fn_call.comp1.is_empty
    /\ ~fn_call.comp2.is_empty
    /\ fn_call.comp1.street_number # <<>>
    /\ fn_call.comp2.street_number # <<>>
    /\ fn_call.comp1.street_number # fn_call.comp2.street_number

\* C19: two addresses whose parsed street numbers are both non-empty and
\* different have a similarity below 0.5, and so below the matching
\* threshold of 0.8, whatever their other components are.
C19_DifferentNumbersBelowHalf ==
    DifferentStreetNumbers
        => /\ RLess(fn_call.result, <<1, 2>>)
           /\ RLess(fn_call.result, <<4, 5>>)

\* the street numbers differ and every other component is the same
C19_Witness ==
    /\ DifferentStreetNumbers
    /\ \A name \in ComponentNames \ {"street_number"} :
           /\ ComponentOf(fn_call.comp1, name) = ComponentOf(fn_call.comp2, name)
           /\ ComponentOf(fn_call.comp1, name) # <<>>
    /\ RLess(fn_call.result, <<1, 2>>)

\* the address with the street type St written as Street and the state CA
\* written as California
WrittenInFull(address) ==
    Replace(Replace(address, <<"S", "t">>, <<"S", "t", "r", "e", "e", "t">>),
            <<"C", "A">>, <<"C", "a", "l", "i", "f", "o", "r", "n", "i", "a">>)

\* the two addresses differ in the written form of the street type and of
\* the state, and in nothing else
DifferOnlyInWrittenForm ==
    /\ SimilarityCalled
    /\ fn_call.address1 # fn_call.address2
    /\ fn_call.address2 = WrittenInFull(fn_call.address1)
    /\ fn_call.address2 # Replace(fn_call.address1, <<"S", "t">>, <<"S", "t", "r", "e", "e", "t">>)
    /\ fn_call.address2 # Replace(fn_call.address1, <<"C", "A">>,
                                  <<"C", "a", "l", "i", "f", "o", "r", "n", "i", "a">>)

\* C20: two addresses that differ only in writing the street type as St or
\* Street and the state as CA or California have a similarity of at least
\* 0.95, with or without comma separators and with or without a zip code.
C20_WrittenFormsScoreHigh ==
    DifferOnlyInWrittenForm => RGeq(fn_call.result, <<95, 100>>)

\* Written without commas, the two forms score at least 0.95.
WrittenFormsWithoutCommas ==
    (DifferOnlyInWrittenForm /\ "," \notin Range(fn_call.address1))
        => RGeq(fn_call.result, <<95, 100>>)

WrittenFormsWithoutCommasCalled ==
    /\ DifferOnlyInWrittenForm
    /\ "," \notin Range(fn_call.address1)
    /\ fn_call.comp1.zip_code = <<>>

\* ------------------------------------------------------------------------
\* Evidence and DuplicateRecords
\* ------------------------------------------------------------------------

Ledger(s, m) == historical_data[m.historical_index + 1]

EmptyPhonesScanned ==
    \E s \in AllScans : \E j \in DOMAIN historical_data :
        /\ PhoneNormalForm[Request(s).Phone] = <<>>
        /\ PhoneNormalForm[historical_data[j].Phone] = <<>>
        /\ TrimLower(Request(s).Name) = TrimLower(historical_data[j].Name)
        /\ TrimLower(Request(s).Name) # <<>>
        /\ ~PhoneEvidenceFor(s, j)

\* ------------------------------------------------------------------------
\* The state scorer
\* ------------------------------------------------------------------------

StateCalled == fn_call.fn = "_fuzzy_match_state"

\* the 50 states of the United States, code and name: the 49 of the scorer's
\* table and Mississippi
USStates ==
    state_mappings
        \o << << <<"m", "s">>, <<"m", "i", "s", "s", "i", "s", "s", "i", "p", "p", "i">> >> >>

\* one value is the code and the other the name of the same state
CodeAndName(a, b) ==
    \E i \in 1..Len(USStates) :
        \/ TrimLower(a) = USStates[i][1] /\ TrimLower(b) = USStates[i][2]
        \/ TrimLower(a) = USStates[i][2] /\ TrimLower(b) = USStates[i][1]

\* C22: for each of the 50 states the scorer returns 1.0 for the code and
\* the name in either order; for two different values that are not the code
\* and the name of one state it returns 0.0; the result is always 0.0 or 1.0.
C22_StateScorer ==
    StateCalled =>
        /\ CodeAndName(fn_call.state1, fn_call.state2) => fn_call.result = <<1, 1>>
        /\ ( /\ TrimLower(fn_call.state1) # TrimLower(fn_call.state2)
             /\ ~CodeAndName(fn_call.state1, fn_call.state2) )
               => fn_call.result = <<0, 1>>
        /\ fn_call.result \in {<<0, 1>>, <<1, 1>>}

\* The claim holds on every pair of values without Mississippi.
StateScorerOnTable ==
    (/\ StateCalled
     /\ <<"m", "s">> \notin {TrimLower(fn_call.state1), TrimLower(fn_call.state2)})
        => C22_StateScorer

StateScorerOnTableCalled ==
    /\ StateCalled
    /\ CodeAndName(fn_call.state1, fn_call.state2)
    /\ fn_call.state1 = <<"C", "A">>
    /\ fn_call.result = <<1, 1>>

HasTotal(d) ==
    /\ "total_matches" \in DOMAIN d
    /\ d.total_matches = Len(d.phone_matches) + Len(d.address_matches)
    /\ d.total_matches >= 1

\* C23: every DuplicateRecord, of the sequential and of the parallel path,
\* carries total_matches equal to the number of its phone matches plus the
\* number of its address matches, and that number is at least 1.
C23_TotalMatches == \A d \in AllDuplicateRecords : HasTotal(d)

\* The records of the sequential path carry the total.
SequentialTotalMatches ==
    SequentialDone => \A d \in Range(seq_call.duplicates) : HasTotal(d)

SequentialTotalMatchesReturned ==
    /\ seq_call.status = "returned"
    /\ \E d \in Range(seq_call.duplicates) : d.total_matches >= 2

\* ------------------------------------------------------------------------
\* The ledger across send passes
\* ------------------------------------------------------------------------

IsPrefix(s, t) == Len(s) <= Len(t) /\ SubSeq(t, 1, Len(s)) = s

\* the results of the pass that are a success and were not skipped, in order
SuccessfulResults ==
    SelectSeq(results, LAMBDA r : ResultGet(r, "success") /\ ~ResultGet(r, "skipped"))

\* the ledger record is the one of this row of the batch
RecordOf(record, row) ==
    /\ record.Name = row.Name
    /\ record.Phone = row.Phone
    /\ TrimUpper(record.Book) = TrimUpper(DefaultBook(row.Book))

\* C24: the ledger is append-only across send passes: every step keeps the
\* records it finds, in place and unchanged; only the end of a pass adds
\* records, one for each result that is a success and not skipped, and none
\* for a skipped or failed request.
C24_AppendOnly ==
    [][ /\ IsPrefix(historical_data, historical_data')
        /\ historical_data' # historical_data => send_pos = Len(sms_data) /\ send_pos' = -1
        /\ (send_pos >= 0 /\ send_pos' = -1) =>
               /\ Len(historical_data') = Len(historical_data) + Len(SuccessfulResults)
               /\ \A k \in 1..Len(SuccessfulResults) :
                      RecordOf(historical_data'[Len(historical_data) + k],
                               sms_data[SuccessfulResults[k].record_index + 1]) ]_vars

\* a pass with a successful, a failed and a skipped request has finished on
\* a ledger that held a record before, and the ledger ends with the record
\* of the successful request
C24_Witness ==
    /\ send_pos = -1
    /\ passes >= 1
    /\ \E r \in Range(results) : ~ResultGet(r, "success") /\ ~ResultGet(r, "skipped")
    /\ \E r \in Range(results) : ResultGet(r, "skipped")
    /\ Len(SuccessfulResults) = 1
    /\ Len(historical_data) >= 2
    /\ historical_data[1] = HistJohn
    /\ RecordOf(historical_data[Len(historical_data)],
                sms_data[SuccessfulResults[1].record_index + 1])

\* the score of one component as section 4.4 states it
SpecifiedScore(name, val1, val2) ==
    IF val1 = <<>> /\ val2 = <<>> THEN <<1, 2>>
    ELSE IF val1 = <<>> \/ val2 = <<>> THEN <<0, 1>>
    ELSE IF val1 = val2 THEN <<1, 1>>
    ELSE CASE name = "street_type" -> _fuzzy_match_street_type(val1, val2)
           [] name = "state" -> _fuzzy_match_state(val1, val2)
           [] name = "street_name" -> _fuzzy_match_street_name(val1, val2)
           [] OTHER -> <<0, 1>>

SpecifiedWeight(name) ==
    CASE name = "street_number" -> <<25, 100>>
      [] name = "street_name" -> <<35, 100>>
      [] name = "street_type" -> <<5, 100>>
      [] name = "city" -> <<20, 100>>
      [] name = "state" -> <<10, 100>>
      [] name = "zip_code" -> <<5, 100>>

SpecifiedTerm(name, comp1, comp2) ==
    RMul(SpecifiedWeight(name),
         SpecifiedScore(name, ComponentOf(comp1, name), ComponentOf(comp2, name)))

SpecifiedSum(comp1, comp2) ==
    RAdd(SpecifiedTerm("street_number", comp1, comp2),
    RAdd(SpecifiedTerm("street_name", comp1, comp2),
    RAdd(SpecifiedTerm("street_type", comp1, comp2),
    RAdd(SpecifiedTerm("city", comp1, comp2),
    RAdd(SpecifiedTerm("state", comp1, comp2),
         SpecifiedTerm("zip_code", comp1, comp2))))))

NumbersDiffer(comp1, comp2) ==
    /\ comp1.street_number # <<>> /\ comp2.street_number # <<>>
    /\ comp1.street_number # comp2.street_number

NamesDiffer(comp1, comp2) ==
    /\ comp1.street_name # <<>> /\ comp2.street_name # <<>>
    /\ RLess(SpecifiedScore("street_name", comp1.street_name, comp2.street_name), <<8, 10>>)

CitiesDiffer(comp1, comp2) ==
    comp1.city # <<>> /\ comp2.city # <<>> /\ comp1.city # comp2.city

\* the product P of the penalties that apply
SpecifiedPenalty(comp1, comp2) ==
    RMul(IF NumbersDiffer(comp1, comp2) THEN <<3, 10>> ELSE <<1, 1>>,
    RMul(IF NamesDiffer(comp1, comp2) THEN <<5, 10>> ELSE <<1, 1>>,
         IF CitiesDiffer(comp1, comp2) THEN <<4, 10>> ELSE <<1, 1>>))

REqual(x, y) == x[1] * y[2] = y[1] * x[2]

\* C25: for two non-empty addresses the similarity is
\* min(1, P * sum of weight * score over the six components), with the
\* weights, the component scores and the penalty product P of section 4.4,
\* and it lies in [0, 1].
C25_WeightedFormula ==
    SimilarityCalled =>
        /\ REqual(fn_call.result,
                  RMin(<<1, 1>>, RMul(SpecifiedPenalty(fn_call.comp1, fn_call.comp2),
                                      SpecifiedSum(fn_call.comp1, fn_call.comp2))))
        /\ RGeq(fn_call.result, <<0, 1>>)
        /\ RGeq(<<1, 1>>, fn_call.result)

\* a call in which all three penalties apply and the result is not zero
C25_Witness ==
    /\ SimilarityCalled
    /\ NumbersDiffer(fn_call.comp1, fn_call.comp2)
    /\ NamesDiffer(fn_call.comp1, fn_call.comp2)
    /\ CitiesDiffer(fn_call.comp1, fn_call.comp2)
    /\ RLess(<<0, 1>>, fn_call.result)
    /\ REqual(fn_call.result,
              RMul(<<6, 100>>, SpecifiedSum(fn_call.comp1, fn_call.comp2)))

\* ------------------------------------------------------------------------
\* Address validation
\* ------------------------------------------------------------------------

\* the geocoding attempts of a row and the sleeps between them
Attempts(t) == SelectSeq(t.log, LAMBDA e : e.kind = "geocode" \/ e.ms # ApiDelayMs)

ThirdAttemptRaised(t) ==
    \E k \in DOMAIN t.log :
        t.log[k].kind = "geocode" /\ t.log[k].attempt = 2 /\ t.log[k].outcome = "raised"

ResultsOf(i) == {r \in Range(validation.results) : r.index = i - 1}

\* C26: the geocoding service is called at most 3 times per address;
\* attempt k+1 is made only after attempt k raised and after a sleep of k
\* seconds; when the third attempt raises, the address gets a result with
\* is_valid false and the failure as its error, and the run goes on: when it
\* returns, every address has its result, in both paths.
C26_RetryWithBackoff ==
    \A i \in DOMAIN validation.task :
        LET t == validation.task[i]
            a == Attempts(t)
        IN  /\ Cardinality({k \in DOMAIN a : a[k].kind = "geocode"}) <= 3
            /\ \A k \in DOMAIN a :
                  IF k % 2 = 1
                  THEN a[k].kind = "geocode" /\ a[k].attempt = (k - 1) \div 2
                  ELSE /\ a[k].kind = "sleep" /\ a[k].ms = 1000 * (k \div 2)
                       /\ a[k - 1].outcome = "raised"
            /\ \A k \in DOMAIN a :
                  (a[k].kind = "geocode" /\ a[k].outcome # "raised") => k = Len(a)
            /\ ThirdAttemptRaised(t) =>
                  /\ t.result # <<>>
                  /\ ~t.result[1].is_valid
                  /\ t.result[1].error \notin {<<>>, AddressNotFound}
            /\ (validation.status = "returned" /\ t.status = "done") =>
                  ResultsOf(i) = IF HasAddress(validation.df[i]) THEN {t.result[1]}
                                 ELSE {ValidationResult(i, FALSE, <<>>)}

\* the sequential path returned: the first address failed three times, was
\* retried after 1 s and 2 s, and a later address was validated
C26_Witness ==
    /\ validation.status = "returned"
    /\ ~validation.use_multithreading
    /\ Len(validation.task) >= 2
    /\ ThirdAttemptRaised(validation.task[1])
    /\ \E r \in ResultsOf(1) : ~r.is_valid /\ r.error # <<>>
    /\ \E i \in 2..Len(validation.task) : \E r \in ResultsOf(i) : r.is_valid

\* the same for the multithreaded path
MultithreadedRetried ==
    /\ validation.status = "returned"
    /\ validation.use_multithreading
    /\ Len(validation.task) >= 2
    /\ ThirdAttemptRaised(validation.task[1])
    /\ \E r \in ResultsOf(1) : ~r.is_valid /\ r.error # <<>>
    /\ \E i \in 2..Len(validation.task) : \E r \in ResultsOf(i) : r.is_valid

\* the gate finds the request of a dispatched message in the ledger
AlreadySent(m) == _was_message_already_sent(m.Name, m.Phone, m.Book, historical_data)

\* C27: after a send pass has finished, the ledger holds a record for every
\* request dispatched in it (by SMS, by WhatsApp, or by Both with at least
\* one channel accepted), so that already_sent is true for its name, phone
\* and book in every later pass.
C27_DispatchedIsRecorded ==
    (send_pos = -1 /\ passes >= 1) =>
        \A k \in DOMAIN dispatched :
            /\ \E j \in DOMAIN historical_data :
                   RecordOf(historical_data[j],
                            [Name |-> dispatched[k].Name, Phone |-> dispatched[k].Phone,
                             Book |-> dispatched[k].Book])
            /\ AlreadySent(dispatched[k])

\* The claim holds while no Both pass has run.
DispatchedIsRecordedWithoutBoth ==
    (send_pos = -1 /\ passes = 1 /\ message_type # "Both") => C27_DispatchedIsRecorded

DispatchedIsRecordedWithoutBothFinished ==
    /\ send_pos = -1 /\ passes = 1 /\ message_type = "WhatsApp"
    /\ dispatched # <<>>
    /\ \A k \in DOMAIN dispatched : AlreadySent(dispatched[k])

\* the half-open row ranges <<first, end>> are contiguous, pairwise
\* disjoint and together cover rows 0 .. n-1
IsPartition(chunks, n) ==
    /\ chunks # <<>>
    /\ chunks[1][1] = 0
    /\ chunks[Len(chunks)][2] = n
    /\ \A c \in DOMAIN chunks : chunks[c][1] < chunks[c][2]
    /\ \A c \in 1..(Len(chunks) - 1) : chunks[c][2] = chunks[c + 1][1]
    /\ \A idx \in 0..(n - 1) :
           Cardinality({c \in DOMAIN chunks : chunks[c][1] <= idx /\ idx < chunks[c][2]}) = 1

\* the requests of the batch that have a phone or an address to scan for
Scannable(idx) ==
    ~(/\ CleanPhoneTable[sms_data[idx + 1].Phone] = <<>>
      /\ CleanAddressTable[sms_data[idx + 1].Address] = <<>>)

\* every collected chunk of the parallel pass
AllCollected == par_status \in {"returned", "raised"} /\ sms_chunks # <<>>

\* C28: in the parallel path the chunks are contiguous, pairwise disjoint
\* and cover the batch, and when the pass is over every request with
\* something to scan for has been scanned against the ledger exactly once,
\* by the one worker whose chunk holds it.
C28_EveryRequestScannedOnce ==
    sms_chunks # <<>> =>
        /\ IsPartition(sms_chunks, Len(sms_data))
        /\ \A c \in DOMAIN worker :
               sms_chunks[c][1] <= worker[c].pos /\ worker[c].pos <= sms_chunks[c][2]
        /\ AllCollected =>
               \A idx \in 0..(Len(sms_data) - 1) :
                   Scannable(idx) =>
                       Cardinality({log \in scanned : log.sms_index = idx}) = 1

\* The partition itself always holds, and so does the scan of every request
\* of a chunk in which nothing raised.
ScannedOnceWhereNothingRaised ==
    sms_chunks # <<>> =>
        /\ IsPartition(sms_chunks, Len(sms_data))
        /\ \A c \in DOMAIN worker :
               /\ sms_chunks[c][1] <= worker[c].pos /\ worker[c].pos <= sms_chunks[c][2]
               /\ \A idx \in sms_chunks[c][1]..(sms_chunks[c][2] - 1) :
                      /\ Cardinality({log \in scanned : log.sms_index = idx}) <= 1
                      /\ (\E log \in scanned : log.sms_index = idx) =>
                             idx <= worker[c].pos
                      /\ (worker[c].status = "done" /\ Scannable(idx)) =>
                             \E log \in scanned : log.sms_index = idx

ScannedOnceWhereNothingRaisedReturned ==
    /\ AllCollected
    /\ Len(sms_chunks) = 3
    /\ Len(sms_data) = 11
    /\ \A c \in DOMAIN worker : worker[c].status = "done"
    /\ \A idx \in 0..(Len(sms_data) - 1) :
           Scannable(idx) => Cardinality({log \in scanned : log.sms_index = idx}) = 1
    /\ \E idx \in 0..(Len(sms_data) - 1) : Scannable(idx)

\* the chunking has been computed for a drawn batch length and max_workers
ChunksSplit == fn_call.fn = "sms_chunks"

\* The partition holds for every batch length and every max_workers drawn,
\* max_workers larger than the batch included.
ChunksArePartition ==
    ChunksSplit =>
        /\ IsPartition(fn_call.result, fn_call.len)
        /\ \A c \in 1..(Len(fn_call.result) - 1) :
               fn_call.result[c][2] - fn_call.result[c][1] = fn_call.chunk_size
        /\ fn_call.max_workers > fn_call.len => Len(fn_call.result) = fn_call.len

MoreWorkersThanRequests ==
    ChunksSplit /\ fn_call.max_workers > fn_call.len /\ fn_call.chunk_size = 1

\* the send-gate has been asked about a request and has blocked it
GateBlocked == gate_call.fn = "_was_message_already_sent" /\ gate_call.result

\* C29: for every ledger and every request with a non-empty name and phone,
\* a request for which _was_message_already_sent is True is one for which
\* _is_historical_customer is True as well.
C29_GateImpliesHistorical ==
    (/\ GateBlocked
     /\ Strip(Str(gate_call.name)) # <<>>
     /\ Strip(Str(gate_call.phone)) # <<>>) =>
        _is_historical_customer(gate_call.name, gate_call.phone, historical_data)

\* a blocked request whose phone text is written differently from the phone
\* of every ledger record: the name alone makes it a historical customer
C29_Witness ==
    /\ GateBlocked
    /\ gate_call.name = TxtJohnSmith
    /\ gate_call.phone = PhoneFloat
    /\ \A i \in DOMAIN historical_data :
           Strip(Str(historical_data[i].Phone)) # Strip(Str(gate_call.phone))
    /\ _is_historical_customer(gate_call.name, gate_call.phone, historical_data)

\* C30: whenever the cleaned address of a scanned request is non-empty and
\* identical to the cleaned address of a ledger record, the scan has
\* recorded address evidence for that pair, whichever components the
\* address has.
C30_IdenticalAddressIsEvidence ==
    \A log \in scanned :
        \A j \in DOMAIN LoadedLedger :
            (/\ CleanAddressTable[sms_data[log.sms_index + 1].Address] # <<>>
             /\ CleanAddressTable[sms_data[log.sms_index + 1].Address]
                    = CleanAddressTable[LoadedLedger[j].Address]) =>
                \E k \in DOMAIN log.address_matches :
                    log.address_matches[k].historical_index = j - 1

\* The claim holds for the addresses that have a street number, a street
\* name, a city, a state and a zip code.
IdenticalCompleteAddressIsEvidence ==
    \A log \in scanned :
        \A j \in DOMAIN LoadedLedger :
            (/\ CleanAddressTable[sms_data[log.sms_index + 1].Address] # <<>>
             /\ Complete(_parse_address_components(
                    CleanAddressTable[sms_data[log.sms_index + 1].Address]))
             /\ CleanAddressTable[sms_data[log.sms_index + 1].Address]
                    = CleanAddressTable[LoadedLedger[j].Address]) =>
                \E k \in DOMAIN log.address_matches :
                    log.address_matches[k].historical_index = j - 1

IdenticalCompleteAddressScanned ==
    \E log \in scanned :
        /\ sms_data[log.sms_index + 1].Address = AddrMainSt
        /\ \E k \in DOMAIN log.address_matches :
               LoadedLedger[log.address_matches[k].historical_index + 1].Address = AddrMainStreet

====
